---------------------------- MODULE Spec2Model ----------------------------
(***************************************************************************)
(* A model of the storage core of rust-huge-table: the wall clock that     *)
(* hands out merge timestamps (time.rs), the row buffer codec and row      *)
(* merge (table.rs, primitives.rs), the memtable (memtable.rs), the        *)
(* tombstones (tombstones.rs) and the SSTable writer and reader            *)
(* (sstable.rs).                                                           *)
(*                                                                         *)
(* Buffers are sequences of bytes.  A u64 that is stored fixed-width is    *)
(* kept as its eight base-256 digits, most significant first, so that the  *)
(* full width is kept; numeric order is the lexicographic order of the     *)
(* digits.  A panic of the program is an outcome of the operator that      *)
(* models the panicking function: a record with ok = FALSE.                *)
(***************************************************************************)
EXTENDS Integers, Sequences, FiniteSets, TLC

VARIABLES
    \* ---- time.rs: WallClock ----
    wall,                 \* the system clock, in HT epoch milliseconds
    pc,                   \* per thread: "idle", or "read" (clock read, mutex not yet taken)
    millis,               \* per thread: the local `millis` of WallClock::now
    cur_epoch_millis,     \* WallClockCounter.cur_epoch_millis
    counter,              \* WallClockCounter.counter
    time_travel_counter,  \* WallClockCounter.time_travel_counter
    unique_context,       \* WallClock.unique_context
    last_ts,              \* ticks returned by the latest call of now() (NoTs: none yet)
    last_back,            \* the latest call of now() took the time-travel branch
    kept_ts,              \* a timestamp some caller kept to compare later ones with
    kept_jumps,           \* time-travel branches taken since kept_ts was returned
    kept_is_last,         \* the call that returned kept_ts is the latest call
    time_travel_calls,    \* the calls of on_time_travel made by the latest call of now()
    \* ---- memtable.rs: MemTable ----
    data,                 \* MemTable.data: the stored row buffers
    size,                 \* MemTable.size
    mem_status,           \* "ok", or "panicked" once an add has panicked
    added,                \* the logical rows handed to add so far
    \* ---- table.rs: merge / assemble on chosen rows ----
    rows_in,              \* the column lists of the rows chosen as inputs
    rows_out,             \* the operation applied to them and the decoded results
    \* ---- sstable.rs: SsTable ----
    index_file,           \* bytes of <name_base>.index
    data_file,            \* bytes of <name_base>.data
    ss_rows,              \* the rows given to SsTable::create: column list and buffer
    ss_state,             \* "none", "creating", "stopped", "created" (by create),
                          \* "reopened" (by open), "foreign" (opened, not written by create)
    ss_probe,             \* the primary key probed by the latest find_by_full_pk
    ss_found,             \* the result of the latest find_by_full_pk
    ss_create             \* SsTable::create: the files that exist and the step it is at

clock_vars == <<wall, pc, millis, cur_epoch_millis, counter, time_travel_counter,
                unique_context, last_ts, last_back, kept_ts, kept_jumps, kept_is_last,
                time_travel_calls>>
mem_vars   == <<data, size, mem_status, added>>
row_vars   == <<rows_in, rows_out>>
ss_vars    == <<index_file, data_file, ss_rows, ss_state, ss_probe, ss_found, ss_create>>
vars       == <<clock_vars, mem_vars, row_vars, ss_vars>>

(***************************************************************************)
(* Bounds of the model.                                                    *)
(***************************************************************************)
MaxWall    == 2      \* the system clock takes the values 0..MaxWall
MaxBurst   == 3      \* calls of now() modelled past a starting counter value
MaxTs      == 3      \* rows are written at the timestamps (ticks) 0..MaxTs
MaxPk      == 2      \* primary keys are 1..MaxPk
MaxAdds    == 3      \* calls of MemTable::add
MaxSsRows  == 3      \* rows of an SSTable

Threads == {"t1", "t2"}

Min(a, b) == IF a < b THEN a ELSE b

\* ======================================================================
\* time.rs
\* ======================================================================

NoTs == 0 - 1

CounterPerMilli == 1024
TimeTravelMask  == 7

\* MergeTimestamp::new with the counter cut to its 10 bits.
MergeTimestampNewCounterMasked(epoch_millis, counter_part, uc, time_travel_part) ==
    (epoch_millis * 8388608) + ((counter_part % 1024) * 8192) + (uc * 8) + time_travel_part

\* MergeTimestamp::new: the asserts, then the four fields shifted into place.
MergeTimestampNew(epoch_millis, counter_part, uc, time_travel_part) ==
    (epoch_millis * 8388608) + (counter_part * 8192) + (uc * 8) + time_travel_part

MergeTimestampNewAsserts(uc, time_travel_part) ==
    uc < 1024 /\ time_travel_part < 8

\* MergeTimestamp::new with the counter shifted by 12 bits instead of 13.
MergeTimestampNew64CounterShift12(epoch_millis, counter_part, uc, time_travel_part) ==
    LET low == (counter_part * 4096) + (uc * 8) + time_travel_part
        lo  == epoch_millis[2] + (low \div 8388608)
    IN  <<(epoch_millis[1] + (lo \div 1048576)) % 2097152, lo % 1048576, low % 8388608>>

\* MergeTimestamp::new in the full width of the u64.  epoch_millis is given
\* as <<hi, lo>>, its bits above and below bit 20; the ticks are returned as
\* <<bits 43..63, bits 23..42, bits 0..22>>, so numeric order of the ticks is
\* the lexicographic order of the three parts.  Bits shifted past bit 63 are
\* dropped, as by <<.
MergeTimestampNew64(epoch_millis, counter_part, uc, time_travel_part) ==
    LET low == (counter_part * 8192) + (uc * 8) + time_travel_part
        lo  == epoch_millis[2] + (low \div 8388608)
    IN  <<(epoch_millis[1] + (lo \div 1048576)) % 2097152, lo % 1048576, low % 8388608>>

\* The state of the mutex-guarded WallClockCounter after now() ran its locked
\* section with the reading m.
NowBack(m) == m < cur_epoch_millis

\* now() with the increment of the time travel counter left out.
NowTimeTravelNoIncrement(m) == time_travel_counter

NowTimeTravel(m) ==
    IF NowBack(m) THEN (time_travel_counter + 1) % (TimeTravelMask + 1)
                  ELSE time_travel_counter

\* now() resetting the counter whenever the millisecond changes.
NowCounterResetOnNewMilli(m) ==
    IF NowBack(m) \/ m - cur_epoch_millis # 0 THEN 0 + 1 ELSE counter + 1

NowCounter(m) ==
    IF NowBack(m)
    THEN 0 + 1
    ELSE LET diff_millis == m - cur_epoch_millis IN
         IF diff_millis # 0
         THEN (IF counter < diff_millis * CounterPerMilli
               THEN 0
               ELSE counter - diff_millis * CounterPerMilli) + 1
         ELSE counter + 1

NowEpoch(m) ==
    IF NowBack(m) THEN m
    ELSE IF m - cur_epoch_millis # 0 THEN m ELSE cur_epoch_millis

NowResult(m) ==
    MergeTimestampNew(m, NowCounter(m), unique_context, NowTimeTravel(m))

\* now() calling on_time_travel after it has set cur_epoch_millis.
TimeTravelCallsAfterEpochReset(m) ==
    IF NowBack(m)
    THEN <<[cur_millis |-> m, prev_millis |-> NowEpoch(m),
            new_time_travel_counter |-> NowTimeTravel(m)]>>
    ELSE <<>>

\* The calls of on_time_travel one call of now() makes, with their arguments:
\* one on the time-travel branch, after the counter is incremented and before
\* cur_epoch_millis is overwritten.
TimeTravelCalls(m) ==
    IF NowBack(m)
    THEN <<[cur_millis |-> m, prev_millis |-> cur_epoch_millis,
            new_time_travel_counter |-> NowTimeTravel(m)]>>
    ELSE <<>>

\* Counter values the clock starts a run with: 0 after construction, and the
\* values it holds after 1023 and 2047 calls within millisecond 0.
StartCounters == {0, CounterPerMilli - 1, 2 * CounterPerMilli - 1}

CallBudgetLeft ==
    \E b \in StartCounters : counter >= b /\ counter < b + MaxBurst

ClockInit ==
    /\ wall = 0
    /\ pc = [t \in Threads |-> "idle"]
    /\ millis = [t \in Threads |-> 0]
    /\ cur_epoch_millis = 0
    /\ counter \in StartCounters
    /\ time_travel_counter \in {0, TimeTravelMask}
    /\ unique_context \in {0, 1023}
    /\ last_ts = IF counter = 0 THEN NoTs
                 ELSE MergeTimestampNew(0, counter, unique_context, time_travel_counter)
    /\ last_back = FALSE
    /\ kept_ts = NoTs
    /\ kept_jumps = 0
    /\ kept_is_last = FALSE
    /\ time_travel_calls = <<>>

\* The system clock moves forward.
WallForward ==
    /\ wall < MaxWall
    /\ wall' = wall + 1
    /\ UNCHANGED <<pc, millis, cur_epoch_millis, counter, time_travel_counter,
                   unique_context, last_ts, last_back, kept_ts, kept_jumps, kept_is_last,
                   time_travel_calls>>
    /\ UNCHANGED <<mem_vars, row_vars, ss_vars>>

\* The system clock is set back.
WallBackward ==
    /\ \E w \in 0..(wall - 1) : wall' = w
    /\ UNCHANGED <<pc, millis, cur_epoch_millis, counter, time_travel_counter,
                   unique_context, last_ts, last_back, kept_ts, kept_jumps, kept_is_last,
                   time_travel_calls>>
    /\ UNCHANGED <<mem_vars, row_vars, ss_vars>>

\* WallClock::now, line 164: the clock is read before the mutex is taken.
NowRead(t) ==
    /\ pc[t] = "idle"
    /\ CallBudgetLeft
    /\ pc' = [pc EXCEPT ![t] = "read"]
    /\ millis' = [millis EXCEPT ![t] = wall]
    /\ UNCHANGED <<wall, cur_epoch_millis, counter, time_travel_counter,
                   unique_context, last_ts, last_back, kept_ts, kept_jumps, kept_is_last,
                   time_travel_calls>>
    /\ UNCHANGED <<mem_vars, row_vars, ss_vars>>

\* WallClock::now, lines 166-192: the locked section, and the return.  The
\* caller may keep the returned timestamp (keep) when none is kept yet.
NowLocked(t) ==
    /\ pc[t] = "read"
    /\ MergeTimestampNewAsserts(unique_context, NowTimeTravel(millis[t]))
    /\ \E keep \in BOOLEAN :
         /\ keep => kept_ts = NoTs
         /\ kept_ts' = IF keep THEN NowResult(millis[t]) ELSE kept_ts
         /\ kept_is_last' = keep
         /\ kept_jumps' = IF keep \/ kept_ts = NoTs THEN 0
                          ELSE IF NowBack(millis[t])
                               THEN Min(kept_jumps + 1, TimeTravelMask + 1)
                               ELSE kept_jumps
    /\ time_travel_counter' = NowTimeTravel(millis[t])
    /\ counter' = NowCounter(millis[t])
    /\ cur_epoch_millis' = NowEpoch(millis[t])
    /\ last_ts' = NowResult(millis[t])
    /\ last_back' = NowBack(millis[t])
    /\ time_travel_calls' = TimeTravelCalls(millis[t])
    /\ pc' = [pc EXCEPT ![t] = "idle"]
    /\ UNCHANGED <<wall, millis, unique_context>>
    /\ UNCHANGED <<mem_vars, row_vars, ss_vars>>


\* ======================================================================
\* primitives.rs
\* ======================================================================

\* The outcome of a decoding step: a panic, or a value and the offset after it.
\* Offsets are 0-based as in the source; buf[offs + 1] is the byte at offs.
Fail == [ok |-> FALSE]
Ok(v, offs) == [ok |-> TRUE, v |-> v, offs |-> offs]

\* The longest varint the model decodes, in bytes.
VarintMaxBytes == 4

\* The most values one caller writes back to back.
MaxItems == 2

RECURSIVE encode_varint_u64(_)
encode_varint_u64(value) ==
    IF value >= 128
    THEN <<(value % 128) + 128>> \o encode_varint_u64(value \div 128)
    ELSE <<value>>

RECURSIVE encode_varint_u32(_)
encode_varint_u32(value) ==
    IF value >= 128
    THEN <<(value % 128) + 128>> \o encode_varint_u32(value \div 128)
    ELSE <<value>>

RECURSIVE encode_varint_usize(_)
encode_varint_usize(value) ==
    IF value >= 128
    THEN <<(value % 128) + 128>> \o encode_varint_usize(value \div 128)
    ELSE <<value>>

\* The default trait methods: value > 0 for i64, value >= 0 for i32.
encode_varint_i64(value) ==
    IF value > 0 THEN encode_varint_u64(value * 2)
                 ELSE encode_varint_u64(((0 - value) * 2) + 1)

encode_varint_i32(value) ==
    IF value >= 0 THEN encode_varint_u32(value * 2)
                  ELSE encode_varint_u32(((0 - value) * 2) + 1)

\* A u64 as its base-256 digits, most significant first (n below 2^31).
U64(n) == <<0, 0, 0, 0, (n \div 16777216) % 256, (n \div 65536) % 256,
            (n \div 256) % 256, n % 256>>

U32(n) == <<(n \div 16777216) % 256, (n \div 65536) % 256, (n \div 256) % 256, n % 256>>

Reverse(s) == [i \in 1..Len(s) |-> s[Len(s) + 1 - i]]

\* to_le, then the bytes in memory order: least significant digit first.
encode_fixed_u64(digits) == Reverse(digits)
encode_fixed_u32(digits) == Reverse(digits)

encode_bool(value) == encode_varint_u32(IF value THEN 1 ELSE 0)

encode_utf8(bytes) == encode_varint_usize(Len(bytes)) \o bytes

\* The loop of decode_varint_*: self[*offs] panics past the end of the slice.
RECURSIVE decode_varint_loop(_, _, _, _)
decode_varint_loop(buf, offs, result, shift) ==
    IF offs >= Len(buf) \/ shift >= 7 * VarintMaxBytes THEN Fail
    ELSE LET next == buf[offs + 1]
             r    == result + ((next % 128) * (2 ^ shift))
         IN  IF next < 128 THEN Ok(r, offs + 1)
             ELSE decode_varint_loop(buf, offs + 1, r, shift + 7)

decode_varint_u64(buf, offs)   == decode_varint_loop(buf, offs, 0, 0)
decode_varint_u32(buf, offs)   == decode_varint_loop(buf, offs, 0, 0)
decode_varint_usize(buf, offs) == decode_varint_loop(buf, offs, 0, 0)

UnZigZag(raw) == IF raw % 2 = 0 THEN raw \div 2 ELSE 0 - (raw \div 2)

UnZigZagOf(d) == IF d.ok THEN Ok(UnZigZag(d.v), d.offs) ELSE Fail

decode_varint_i64(buf, offs) == UnZigZagOf(decode_varint_u64(buf, offs))

decode_varint_i32(buf, offs) == UnZigZagOf(decode_varint_u32(buf, offs))

\* self[*offs..].split_at(8) panics unless 8 bytes are left.
decode_fixed_u64(buf, offs) ==
    IF offs + 8 > Len(buf) THEN Fail
    ELSE Ok(Reverse(SubSeq(buf, offs + 1, offs + 8)), offs + 8)

decode_fixed_u32(buf, offs) ==
    IF offs + 4 > Len(buf) THEN Fail
    ELSE Ok(Reverse(SubSeq(buf, offs + 1, offs + 4)), offs + 4)

decode_bool(buf, offs) ==
    IF offs >= Len(buf) THEN Fail ELSE Ok(buf[offs + 1] # 0, offs + 1)

\* std::str::from_utf8: the bytes from position i on are well-formed UTF-8
\* (no overlong forms, no surrogates, nothing above U+10FFFF).
RECURSIVE Utf8Valid(_, _)
Utf8Valid(s, i) ==
    LET Cont(k) == i + k <= Len(s) /\ s[i + k] >= 128 /\ s[i + k] <= 191
        Second(lo, hi) == i + 1 <= Len(s) /\ s[i + 1] >= lo /\ s[i + 1] <= hi
        b == s[i]
    IN  IF i > Len(s) THEN TRUE
        ELSE IF b < 128 THEN Utf8Valid(s, i + 1)
        ELSE IF b >= 194 /\ b <= 223 THEN Cont(1) /\ Utf8Valid(s, i + 2)
        ELSE IF b = 224 THEN Second(160, 191) /\ Cont(2) /\ Utf8Valid(s, i + 3)
        ELSE IF b = 237 THEN Second(128, 159) /\ Cont(2) /\ Utf8Valid(s, i + 3)
        ELSE IF b >= 225 /\ b <= 239 THEN Cont(1) /\ Cont(2) /\ Utf8Valid(s, i + 3)
        ELSE IF b = 240 THEN Second(144, 191) /\ Cont(2) /\ Cont(3) /\ Utf8Valid(s, i + 4)
        ELSE IF b = 244 THEN Second(128, 143) /\ Cont(2) /\ Cont(3) /\ Utf8Valid(s, i + 4)
        ELSE IF b >= 241 /\ b <= 243
             THEN Cont(1) /\ Cont(2) /\ Cont(3) /\ Utf8Valid(s, i + 4)
        ELSE FALSE

\* The same with the `*offs += len` left out.
decode_utf8KeepsOffs(buf, offs) ==
    LET FromUtf8(str_buf, end) ==
            IF Utf8Valid(str_buf, 1) THEN Ok(str_buf, end) ELSE Fail
        Slice(len) ==
            IF ~len.ok THEN Fail
            ELSE IF len.offs + len.v > Len(buf) THEN Fail
            ELSE FromUtf8(SubSeq(buf, len.offs + 1, len.offs + len.v), len.offs)
    IN  Slice(decode_varint_usize(buf, offs))

\* The slice self[offs .. offs+len] panics past the end; from_utf8(..).expect
\* panics on bytes that are no UTF-8.
decode_utf8(buf, offs) ==
    LET FromUtf8(str_buf, end) ==
            IF Utf8Valid(str_buf, 1) THEN Ok(str_buf, end) ELSE Fail
        Slice(len) ==
            IF ~len.ok THEN Fail
            ELSE IF len.offs + len.v > Len(buf) THEN Fail
            ELSE FromUtf8(SubSeq(buf, len.offs + 1, len.offs + len.v), len.offs + len.v)
    IN  Slice(decode_varint_usize(buf, offs))

\* encode_u8 / decode_u8 and the Encode / Decode impls of MergeTimestamp and
\* TtlTimestamp: one byte; the ticks as a fixed u64; the seconds as a fixed u32.
encode_u8(b) == <<b>>

decode_u8(buf, offs) ==
    IF offs >= Len(buf) THEN Fail ELSE Ok(buf[offs + 1], offs + 1)

encode_MergeTimestamp(ts) == encode_fixed_u64(ts)
decode_MergeTimestamp(buf, offs) == decode_fixed_u64(buf, offs)
encode_TtlTimestamp(ttl) == encode_fixed_u32(ttl)
decode_TtlTimestamp(buf, offs) == decode_fixed_u32(buf, offs)

\* ----------------------------------------------------------------------
\* primitives.rs at the full width of the machine words. A u32 / i32 / u64 /
\* i64 / usize is the sequence of its bits, least significant first; signed
\* words are two's complement. overflow_checks is the build's setting: with
\* it an arithmetic overflow panics, without it the result wraps.
\* ----------------------------------------------------------------------

\* The word of `width` bits holding n (0 <= n < 2^31).
Bits(n, width) == [i \in 1..width |-> IF i <= 31 THEN (n \div (2 ^ (i - 1))) % 2 ELSE 0]

IsZero(w) == \A i \in 1..Len(w) : w[i] = 0

\* !w and w.wrapping_add(1)
NotBits(w) == [i \in 1..Len(w) |-> 1 - w[i]]
IncBits(w) == [i \in 1..Len(w) |-> IF \A j \in 1..(i - 1) : w[j] = 1 THEN 1 - w[i] ELSE w[i]]

\* iN::MIN, iN::MAX, uN::MAX
MinBits(width) == [i \in 1..width |-> IF i = width THEN 1 ELSE 0]
MaxBits(width) == [i \in 1..width |-> IF i = width THEN 0 ELSE 1]
OnesBits(width) == [i \in 1..width |-> 1]

IsNegative(w) == w[Len(w)] = 1

\* -value: overflows for iN::MIN only.
NegBits(w, overflow_checks) ==
    IF w = MinBits(Len(w)) /\ overflow_checks THEN Fail
    ELSE Ok(IncBits(NotBits(w)), 0)

\* value << n and value >> n on an unsigned word: bits pushed out are lost.
ShlBits(w, n) == [i \in 1..Len(w) |-> IF i > n THEN w[i - n] ELSE 0]
ShrBits(w, n) == [i \in 1..Len(w) |-> IF i + n <= Len(w) THEN w[i + n] ELSE 0]

\* (value & 0x7F) as u8
Low7(w) == w[1] + 2 * w[2] + 4 * w[3] + 8 * w[4] + 16 * w[5] + 32 * w[6] + 64 * w[7]

\* a + b, with the carry out of the top bit
RECURSIVE AddCarry(_, _, _, _)
AddCarry(a, b, i, carry) ==
    IF i > Len(a) THEN <<carry>>
    ELSE <<(a[i] + b[i] + carry) % 2>> \o AddCarry(a, b, i + 1, (a[i] + b[i] + carry) \div 2)

AddBits(a, b, overflow_checks) ==
    LET Sum(s) == IF s[Len(a) + 1] = 1 /\ overflow_checks THEN Fail
                  ELSE Ok(SubSeq(s, 1, Len(a)), 0)
    IN  Sum(AddCarry(a, b, 1, 0))

\* while value >= 0x80 { write (value & 0x7F) | 0x80; value >>= 7 } write value
RECURSIVE encode_varint_bits(_)
encode_varint_bits(value) ==
    IF \E i \in 8..Len(value) : value[i] = 1
    THEN <<Low7(value) + 128>> \o encode_varint_bits(ShrBits(value, 7))
    ELSE <<Low7(value)>>

\* if value > 0 { (value as u64) << 1 } else { ((-value as u64) << 1) + 1 }
encode_varint_i64_bits(value, overflow_checks) ==
    LET Negative(neg) ==
            IF ~neg.ok THEN Fail
            ELSE LET sum == AddBits(ShlBits(neg.v, 1), Bits(1, 64), overflow_checks)
                 IN  IF sum.ok THEN Ok(encode_varint_bits(sum.v), 0) ELSE Fail
    IN  IF ~IsNegative(value) /\ ~IsZero(value)
        THEN Ok(encode_varint_bits(ShlBits(value, 1)), 0)
        ELSE Negative(NegBits(value, overflow_checks))

\* if value >= 0 { (value as u32) << 1 } else { ((-value as u32) << 1) + 1 }
encode_varint_i32_bits(value, overflow_checks) ==
    LET Negative(neg) ==
            IF ~neg.ok THEN Fail
            ELSE LET sum == AddBits(ShlBits(neg.v, 1), Bits(1, 32), overflow_checks)
                 IN  IF sum.ok THEN Ok(encode_varint_bits(sum.v), 0) ELSE Fail
    IN  IF ~IsNegative(value)
        THEN Ok(encode_varint_bits(ShlBits(value, 1)), 0)
        ELSE Negative(NegBits(value, overflow_checks))

\* loop { next = self[*offs]; *offs += 1;
\*        result += ((next & 0x7F) as uN) << shift; shift += 7;
\*        if next & 0x80 == 0 { break } }
\* A shift by the width or more overflows: a panic with overflow checks,
\* the shift taken modulo the width without.
RECURSIVE decode_varint_bits_loop(_, _, _, _, _)
decode_varint_bits_loop(buf, offs, result, shift, overflow_checks) ==
    IF offs >= Len(buf) THEN Fail
    ELSE IF shift >= Len(result) /\ overflow_checks THEN Fail
    ELSE LET next == buf[offs + 1]
             Step(sum) ==
                 IF ~sum.ok THEN Fail
                 ELSE IF next < 128 THEN Ok(sum.v, offs + 1)
                 ELSE decode_varint_bits_loop(buf, offs + 1, sum.v, shift + 7, overflow_checks)
         IN  Step(AddBits(result,
                          ShlBits(Bits(next % 128, Len(result)), shift % Len(result)),
                          overflow_checks))

decode_varint_u64_bits(buf, offs, overflow_checks) ==
    decode_varint_bits_loop(buf, offs, Bits(0, 64), 0, overflow_checks)

decode_varint_u32_bits(buf, offs, overflow_checks) ==
    decode_varint_bits_loop(buf, offs, Bits(0, 32), 0, overflow_checks)

decode_varint_usize_bits(buf, offs, overflow_checks) ==
    decode_varint_bits_loop(buf, offs, Bits(0, 64), 0, overflow_checks)

\* if raw & 1 == 0 { (raw >> 1) as iN } else { -((raw >> 1) as iN) }
UnZigZagBits(d, overflow_checks) ==
    LET Negated(neg) == IF neg.ok THEN Ok(neg.v, d.offs) ELSE Fail
    IN  IF ~d.ok THEN Fail
        ELSE IF d.v[1] = 0 THEN Ok(ShrBits(d.v, 1), d.offs)
        ELSE Negated(NegBits(ShrBits(d.v, 1), overflow_checks))

decode_varint_i64_bits(buf, offs, overflow_checks) ==
    UnZigZagBits(decode_varint_u64_bits(buf, offs, overflow_checks), overflow_checks)

decode_varint_i32_bits(buf, offs, overflow_checks) ==
    UnZigZagBits(decode_varint_u32_bits(buf, offs, overflow_checks), overflow_checks)



\* ======================================================================
\* table.rs
\* ======================================================================

\* Option<T>: None is the empty sequence, Some(x) the sequence <<x>>.
None == <<>>
Some(x) == <<x>>
IsSome(o) == Len(o) > 0
Unwrap(o) == o[1]

ColumnIdMax == 63

\* SimpleTableTestSetup::table_schema (testutils.rs): pk BigInt, text, int.
SimpleSchema ==
    << [col_id |-> 0, tpe |-> "BigInt", pk_spec |-> "PartitionKey"],
       [col_id |-> 1, tpe |-> "Text",   pk_spec |-> "Regular"],
       [col_id |-> 2, tpe |-> "Int",    pk_spec |-> "Regular"] >>

\* TableSchema::column: the first column of that id, or an error.
SchemaHasColumn(schema, col_id) ==
    \E i \in 1..Len(schema) : schema[i].col_id = col_id

SchemaColumn(schema, col_id) ==
    schema[CHOOSE i \in 1..Len(schema) :
              /\ schema[i].col_id = col_id
              /\ \A j \in 1..(i - 1) : schema[j].col_id # col_id]

\* ColumnValue: a tag and a payload.  The payload is a sequence: the one
\* number of an Int or BigInt, 0 or 1 for a Boolean, the bytes of a Text.
BooleanV(b) == [tpe |-> "Boolean", v |-> <<IF b THEN 1 ELSE 0>>]
IntV(i)     == [tpe |-> "Int", v |-> <<i>>]
BigIntV(i)  == [tpe |-> "BigInt", v |-> <<i>>]
TextV(s)    == [tpe |-> "Text", v |-> s]

ColumnData(col_id, timestamp, expiry, value) ==
    [col_id |-> col_id, timestamp |-> timestamp, expiry |-> expiry, value |-> value]

\* Numeric order of two fixed-width numbers given by their digits.
RECURSIVE DigitsLess(_, _)
DigitsLess(a, b) ==
    IF Len(a) = 0 \/ Len(b) = 0 THEN Len(a) < Len(b)
    ELSE IF a[1] # b[1] THEN a[1] < b[1]
    ELSE DigitsLess(Tail(a), Tail(b))

\* RowFlags, ColumnFlags: the bits of the flag bytes.
Bit(byte, mask) == (byte \div mask) % 2 = 1

RowFlagsCreate(has_row_expiry) == IF has_row_expiry THEN 1 ELSE 0
RowFlagsHasRowExpiry(flags) == Bit(flags, 1)

ColumnFlagsNew(is_null, has_timestamp, has_col_expiry, has_row_expiry) ==
    (IF is_null THEN 1 ELSE 0) + (IF has_timestamp THEN 2 ELSE 0)
    + (IF has_col_expiry THEN 4 ELSE 0) + (IF has_row_expiry THEN 8 ELSE 0)

ColumnFlagsIsNull(flags) == Bit(flags, 1)
ColumnFlagsHasColTimestamp(flags) == Bit(flags, 2)
ColumnFlagsExpiry(flags) ==
    IF Bit(flags, 8) THEN "RowExpiry"
    ELSE IF Bit(flags, 4) THEN "ColumnExpiry"
    ELSE "NoExpiry"

\* RowData::flags, timestamp, expiry: the row header.
RowDataFlags(buf) == decode_u8(buf, 0)

RowDataTimestamp(buf) == decode_MergeTimestamp(buf, 1)

\* Some(..) of a decoded value.
SomeOf(d) == IF d.ok THEN Ok(Some(d.v), d.offs) ELSE Fail

RowDataExpiry(buf) ==
    LET Expiry(f) ==
            IF ~f.ok THEN Fail
            ELSE IF RowFlagsHasRowExpiry(f.v) THEN SomeOf(decode_TtlTimestamp(buf, 9))
            ELSE Ok(None, 0)
    IN  Expiry(RowDataFlags(buf))

\* The value of a column, decoded per the schema's type of the column id.
ValueOf(tpe, raw) ==
    CASE tpe = "Boolean" -> BooleanV(raw)
      [] tpe = "Int"     -> IntV(raw)
      [] tpe = "BigInt"  -> BigIntV(raw)
      [] tpe = "Text"    -> TextV(raw)

DecodedValue(tpe, d) == IF d.ok THEN Ok(Some(ValueOf(tpe, d.v)), d.offs) ELSE Fail

DecodeValue(schema, buf, col_id, offs) ==
    IF ~SchemaHasColumn(schema, col_id) THEN Fail     \* column(col_id).unwrap()
    ELSE LET Typed(tpe) ==
                 CASE tpe = "Boolean" -> DecodedValue(tpe, decode_bool(buf, offs))
                   [] tpe = "Int"     -> DecodedValue(tpe, decode_varint_i32(buf, offs))
                   [] tpe = "BigInt"  -> DecodedValue(tpe, decode_varint_i64(buf, offs))
                   [] tpe = "Text"    -> DecodedValue(tpe, decode_utf8(buf, offs))
         IN  Typed(SchemaColumn(schema, col_id).tpe)

\* RowData::read_col: the id, the flags, the timestamp, the expiry and the
\* value, each decoded at the offset the one before it ended at.
read_col(schema, buf, row_timestamp, row_expiry, offs) ==
    LET WithValue(id, ts, ex, val) ==
            IF ~val.ok THEN Fail
            ELSE IF id.v > ColumnIdMax THEN Fail      \* the assert of ColumnData::new
            ELSE Ok(ColumnData(id.v, ts.v, ex.v, val.v), val.offs)
        WithExpiry(id, fl, ts, ex) ==
            IF ~ex.ok THEN Fail
            ELSE WithValue(id, ts, ex,
                           IF ColumnFlagsIsNull(fl.v) THEN Ok(None, ex.offs)
                           ELSE DecodeValue(schema, buf, id.v, ex.offs))
        WithTimestamp(id, fl, ts) ==
            IF ~ts.ok THEN Fail
            ELSE WithExpiry(id, fl, ts,
                     CASE ColumnFlagsExpiry(fl.v) = "NoExpiry"     -> Ok(None, ts.offs)
                       [] ColumnFlagsExpiry(fl.v) = "ColumnExpiry" ->
                              SomeOf(decode_TtlTimestamp(buf, ts.offs))
                       [] ColumnFlagsExpiry(fl.v) = "RowExpiry"    -> Ok(row_expiry, ts.offs))
        WithFlags(id, fl) ==
            IF ~fl.ok THEN Fail
            ELSE WithTimestamp(id, fl,
                     IF ColumnFlagsHasColTimestamp(fl.v) THEN decode_fixed_u64(buf, fl.offs)
                     ELSE Ok(row_timestamp, fl.offs))
        WithId(id) ==
            IF ~id.ok THEN Fail ELSE WithFlags(id, decode_u8(buf, id.offs))
    IN  WithId(decode_u8(buf, offs))

\* read_col with the row's own timestamp and expiry, as every caller passes them.
ReadColOfRow(schema, buf, offs) ==
    LET Read(t, e) ==
            IF ~t.ok \/ ~e.ok THEN Fail
            ELSE read_col(schema, buf, t.v, e.v, offs)
    IN  Read(RowDataTimestamp(buf), RowDataExpiry(buf))

\* RowData::offs_start_column_data.
offs_start_column_data(buf) ==
    IF Len(buf) = 0 THEN Fail                         \* self.buf[0]
    ELSE IF RowFlagsHasRowExpiry(buf[1])
         THEN LET Skipped(d) == IF d.ok THEN Ok(0, d.offs) ELSE Fail
              IN  Skipped(decode_varint_u32(buf, 9))
         ELSE Ok(0, 9)

\* RowData::read_col_by_id: the first column of that id from the start of the
\* column data on, None at the end of the buffer.
RECURSIVE ReadColByIdFrom(_, _, _, _)
ReadColByIdFrom(schema, buf, col_id, offs) ==
    IF offs >= Len(buf) THEN Ok(None, offs)
    ELSE LET Check(candidate) ==
                 IF ~candidate.ok THEN Fail
                 ELSE IF candidate.v.col_id = col_id
                      THEN Ok(Some(candidate.v), candidate.offs)
                 ELSE ReadColByIdFrom(schema, buf, col_id, candidate.offs)
         IN  Check(ReadColOfRow(schema, buf, offs))

read_col_by_id(schema, buf, col_id) ==
    LET From(start) ==
            IF ~start.ok THEN Fail
            ELSE ReadColByIdFrom(schema, buf, col_id, start.offs)
    IN  From(offs_start_column_data(buf))

\* RowColumnIter::next until it returns None: the columns from offs on,
\* appended to those already read.
RECURSIVE IterCollect(_, _, _, _)
IterCollect(schema, buf, offs, read) ==
    IF offs >= Len(buf) THEN Ok(read, offs)
    ELSE LET Next(c) ==
                 IF ~c.ok THEN Fail
                 ELSE IterCollect(schema, buf, c.offs, Append(read, c.v))
         IN  Next(ReadColOfRow(schema, buf, offs))

\* RowData::columns: the iterator it builds starts at offset 0.
columns(schema, buf) == IterCollect(schema, buf, 0, <<>>)


\* #[derive(Ord)] of ColumnValue: the variant first, then the payload.
VariantIndex(tpe) ==
    CASE tpe = "Boolean" -> 0 [] tpe = "Int" -> 1 [] tpe = "BigInt" -> 2 [] tpe = "Text" -> 3

RECURSIVE BytesCmp(_, _)
BytesCmp(a, b) ==
    IF Len(a) = 0 /\ Len(b) = 0 THEN "Equal"
    ELSE IF Len(a) = 0 THEN "Less"
    ELSE IF Len(b) = 0 THEN "Greater"
    ELSE IF a[1] < b[1] THEN "Less"
    ELSE IF a[1] > b[1] THEN "Greater"
    ELSE BytesCmp(Tail(a), Tail(b))

IntCmp(a, b) == IF a < b THEN "Less" ELSE IF a > b THEN "Greater" ELSE "Equal"

ColumnValueCmp(v1, v2) ==
    IF v1.tpe # v2.tpe THEN IntCmp(VariantIndex(v1.tpe), VariantIndex(v2.tpe))
    ELSE CASE v1.tpe = "Text" -> BytesCmp(v1.v, v2.v)
           [] OTHER           -> IntCmp(v1.v[1], v2.v[1])

OrderingReverse(o) ==
    CASE o = "Less" -> "Greater" [] o = "Greater" -> "Less" [] OTHER -> o

\* RowData::compare_by_pk: the loop over schema.columns from column i on.
\* The result is "Less", "Equal" or "Greater", or "Panic".
RECURSIVE compare_by_pk_loop(_, _, _, _, _, _)
compare_by_pk_loop(schema, i, self_buf, offs_self, other_buf, offs_other) ==
    IF i > Len(schema) THEN "Equal"
    ELSE IF schema[i].pk_spec = "Regular" THEN "Equal"
    ELSE LET Decide(cmp, next_self, next_other) ==
                 IF cmp = "Equal"
                 THEN compare_by_pk_loop(schema, i + 1, self_buf, next_self,
                                         other_buf, next_other)
                 ELSE IF schema[i].pk_spec = "ClusterDesc" THEN OrderingReverse(cmp)
                 ELSE cmp
             Compare(col_self, col_other) ==
                 IF ~col_self.ok \/ ~col_other.ok THEN "Panic"
                 ELSE IF schema[i].col_id # col_self.v.col_id THEN "Panic"
                 ELSE IF schema[i].col_id # col_other.v.col_id THEN "Panic"
                 ELSE IF ~IsSome(col_self.v.value) \/ ~IsSome(col_other.v.value)
                      THEN "Panic"
                 ELSE Decide(ColumnValueCmp(Unwrap(col_self.v.value),
                                            Unwrap(col_other.v.value)),
                             col_self.offs, col_other.offs)
         IN  Compare(ReadColOfRow(schema, self_buf, offs_self),
                     ReadColOfRow(schema, other_buf, offs_other))

compare_by_pk(schema, self_buf, other_buf) ==
    LET From(offs_self, offs_other) ==
            IF ~offs_self.ok \/ ~offs_other.ok THEN "Panic"
            ELSE compare_by_pk_loop(schema, 1, self_buf, offs_self.offs,
                                    other_buf, offs_other.offs)
    IN  From(offs_start_column_data(self_buf), offs_start_column_data(other_buf))

\* DetachedRowData::most_frequent_timestamp: the keys of the HashMap with the
\* greatest count.  max_by_key over a HashMap's iteration returns one of them;
\* which one depends on the map's hasher seed.
CountTimestamp(cols, ts) == Cardinality({i \in 1..Len(cols) : cols[i].timestamp = ts})

most_frequent_timestamp(cols) ==
    {cols[i].timestamp : i \in {j \in 1..Len(cols) :
        \A k \in 1..Len(cols) :
            CountTimestamp(cols, cols[k].timestamp) <= CountTimestamp(cols, cols[j].timestamp)}}

\* DetachedRowData::most_frequent_expiry: likewise over the expiries present.
CountExpiry(cols, ex) == Cardinality({i \in 1..Len(cols) : cols[i].expiry = ex})

most_frequent_expiry(cols) ==
    LET with == {j \in 1..Len(cols) : IsSome(cols[j].expiry)} IN
    IF with = {} THEN {None}
    ELSE {cols[i].expiry : i \in {j \in with :
            \A k \in with :
                CountExpiry(cols, cols[k].expiry) <= CountExpiry(cols, cols[j].expiry)}}

EncodeValue(value) ==
    IF ~IsSome(value) THEN <<>>
    ELSE LET val == Unwrap(value) IN
         CASE val.tpe = "Boolean" -> encode_bool(val.v[1] = 1)
           [] val.tpe = "Int"     -> encode_varint_i32(val.v[1])
           [] val.tpe = "BigInt"  -> encode_varint_i64(val.v[1])
           [] val.tpe = "Text"    -> encode_utf8(val.v)

\* encode_column setting ROW_EXPIRY for every column that has an expiry.
encode_columnRowExpiryForAll(col, row_timestamp, row_expiry) ==
    encode_u8(col.col_id)
    \o encode_u8(ColumnFlagsNew(~IsSome(col.value),
                                col.timestamp # row_timestamp,
                                IsSome(col.expiry) /\ col.expiry # row_expiry,
                                IsSome(col.expiry)))
    \o (IF col.timestamp # row_timestamp THEN encode_MergeTimestamp(col.timestamp) ELSE <<>>)
    \o EncodeValue(col.value)

\* DetachedRowData::encode_column: id, flags, the timestamp if it differs from
\* the row's, the value.  (No expiry is written.)
encode_column(col, row_timestamp, row_expiry) ==
    encode_u8(col.col_id)
    \o encode_u8(ColumnFlagsNew(~IsSome(col.value),
                                col.timestamp # row_timestamp,
                                IsSome(col.expiry) /\ col.expiry # row_expiry,
                                IsSome(col.expiry) /\ col.expiry = row_expiry))
    \o (IF col.timestamp # row_timestamp THEN encode_MergeTimestamp(col.timestamp) ELSE <<>>)
    \o EncodeValue(col.value)

RECURSIVE EncodeColumns(_, _, _)
EncodeColumns(cols, row_timestamp, row_expiry) ==
    IF Len(cols) = 0 THEN <<>>
    ELSE encode_column(cols[1], row_timestamp, row_expiry)
         \o EncodeColumns(Tail(cols), row_timestamp, row_expiry)

\* The buffer assemble builds when its first call of most_frequent_timestamp
\* returns row_timestamp (used for the columns), its second call returns
\* timestamp (written to the header), and most_frequent_expiry row_expiry.
AssembleWith(cols, row_timestamp, timestamp, row_expiry) ==
    encode_u8(RowFlagsCreate(IsSome(row_expiry)))
    \o encode_MergeTimestamp(timestamp)
    \o (IF IsSome(row_expiry) THEN encode_TtlTimestamp(Unwrap(row_expiry)) ELSE <<>>)
    \o EncodeColumns(cols, row_timestamp, row_expiry)

\* DetachedRowData::assemble: the buffers it can return; it panics on an empty
\* column list (the assert of most_frequent_timestamp).
assemble(cols) ==
    IF Len(cols) = 0 THEN Fail
    ELSE Ok({AssembleWith(cols, rt, t, re) :
                rt \in most_frequent_timestamp(cols),
                t  \in most_frequent_timestamp(cols),
                re \in most_frequent_expiry(cols)}, 0)

\* The loop of RowData::merge over the two column streams.
RECURSIVE MergeColumns(_, _)
MergeColumns(s, o) ==
    IF Len(s) = 0 THEN o
    ELSE IF Len(o) = 0 THEN s
    ELSE IF s[1].col_id < o[1].col_id THEN <<s[1]>> \o MergeColumns(Tail(s), o)
    ELSE IF o[1].col_id < s[1].col_id THEN <<o[1]>> \o MergeColumns(s, Tail(o))
    ELSE <<IF DigitsLess(o[1].timestamp, s[1].timestamp) THEN s[1] ELSE o[1]>>
         \o MergeColumns(Tail(s), Tail(o))

\* RowData::merge: a panic, or the set of buffers it can return.
merge(schema, self_buf, other_buf) ==
    LET Merged(self_columns, other_columns) ==
            IF ~self_columns.ok \/ ~other_columns.ok THEN Fail
            ELSE assemble(MergeColumns(self_columns.v, other_columns.v))
    IN  Merged(columns(schema, self_buf), columns(schema, other_buf))


\* ======================================================================
\* memtable.rs
\* ======================================================================

\* The rows callers build (testutils.rs: full_row, partial_row, pk_row): the
\* primary key, then text and int, each absent, NULL or a value, all written
\* at the timestamp ts and without expiry.
Pks == 1..MaxPk
Texts == {<<97>>, <<98>>}
Ints == {3}

RegularChoices(col_id, ts, vals) ==
    {<<>>} \cup {<<ColumnData(col_id, U64(ts), None, v)>> : v \in {None} \cup {Some(x) : x \in vals}}

LogicalRows(ts) ==
    {<<ColumnData(0, U64(ts), None, Some(BigIntV(pk)))>> \o t \o i :
        pk \in Pks,
        t \in RegularChoices(1, ts, {TextV(x) : x \in Texts}),
        i \in RegularChoices(2, ts, {IntV(x) : x \in Ints})}

\* The primary key of a logical row: the value of its first column.
PkOf(lr) == lr[1].value

\* testutils.rs pk_row: the row of the primary key alone.
PkRow(pk) == CHOOSE row \in assemble(<<ColumnData(0, U64(0), None, pk)>>).v : TRUE

\* The search of BTreeSet::take / get / insert in a set that fits one leaf
\* node: the keys from the left, key.cmp(k) each, until Equal or Less.
RECURSIVE SearchFrom(_, _, _, _)
SearchFrom(schema, d, key, i) ==
    IF i > Len(d) THEN [kind |-> "GoDown", idx |-> i]
    ELSE LET Branch(c) ==
                 CASE c = "Panic"   -> [kind |-> "Panic", idx |-> i]
                   [] c = "Equal"   -> [kind |-> "Found", idx |-> i]
                   [] c = "Less"    -> [kind |-> "GoDown", idx |-> i]
                   [] c = "Greater" -> SearchFrom(schema, d, key, i + 1)
         IN  Branch(compare_by_pk(schema, key, d[i]))

Search(schema, d, key) == SearchFrom(schema, d, key, 1)

RemoveAt(d, i) == SubSeq(d, 1, i - 1) \o SubSeq(d, i + 1, Len(d))
InsertAt(d, i, x) == SubSeq(d, 1, i - 1) \o <<x>> \o SubSeq(d, i, Len(d))

MemState(d, sz, st) == [data |-> d, size |-> sz, status |-> st]

\* MemTable::add, lines 33-34: size += len; assert!(self.data.insert(..)).
AddInsert(schema, d, sz, to_be_added) ==
    LET Insert(f) ==
            IF f.kind = "GoDown"
            THEN MemState(InsertAt(d, f.idx, to_be_added), sz + Len(to_be_added), "ok")
            ELSE MemState(d, sz + Len(to_be_added), "panic_insert")
    IN  Insert(Search(schema, d, to_be_added))

\* MemTable::add without the subtraction of the previous row's length.
MemTableAddKeepsPrevLen(schema, d, sz, row) ==
    LET Merge(prev, d1, sz1, m) ==
            IF ~m.ok THEN {MemState(d1, sz1, "panic_merge")}
            ELSE {AddInsert(schema, d1, sz1, merged) : merged \in m.v}
        Take(f) ==
            IF f.kind = "Panic" THEN {MemState(d, sz, "panic_take")}
            ELSE IF f.kind = "GoDown" THEN {AddInsert(schema, d, sz, row)}
            ELSE Merge(d[f.idx], RemoveAt(d, f.idx), sz,
                       merge(schema, row, d[f.idx]))
    IN  Take(Search(schema, d, row))

\* MemTable::add: the states it can leave the memtable in.
MemTableAdd(schema, d, sz, row) ==
    LET Merge(prev, d1, sz1, m) ==
            IF ~m.ok THEN {MemState(d1, sz1, "panic_merge")}
            ELSE {AddInsert(schema, d1, sz1, merged) : merged \in m.v}
        Take(f) ==
            IF f.kind = "Panic" THEN {MemState(d, sz, "panic_take")}
            ELSE IF f.kind = "GoDown" THEN {AddInsert(schema, d, sz, row)}
            ELSE Merge(d[f.idx], RemoveAt(d, f.idx), sz - Len(d[f.idx]),
                       merge(schema, row, d[f.idx]))
    IN  Take(Search(schema, d, row))

\* MemTable::get: the stored row, None, or a panic of the comparison.
MemTableGet(schema, d, pk_data) ==
    LET Got(f) ==
            IF f.kind = "Panic" THEN Fail
            ELSE IF f.kind = "Found" THEN Ok(Some(d[f.idx]), 0)
            ELSE Ok(None, 0)
    IN  Got(Search(schema, d, pk_data))

MemInit ==
    /\ data = <<>>
    /\ size = 0
    /\ mem_status = "ok"
    /\ added = {}

UsedTs == {r[1].timestamp : r \in added}

\* A caller assembles a row at a timestamp no earlier write used and adds it.
MemAdd ==
    /\ mem_status = "ok"
    /\ Cardinality(added) < MaxAdds
    /\ \E ts \in 0..MaxTs : \E lr \in LogicalRows(ts) :
         /\ U64(ts) \notin UsedTs
         /\ \E row \in assemble(lr).v :
              \E after \in MemTableAdd(SimpleSchema, data, size, row) :
                 /\ data' = after.data
                 /\ size' = after.size
                 /\ mem_status' = after.status
                 /\ added' = added \cup {lr}
    /\ UNCHANGED <<clock_vars, row_vars, ss_vars>>


\* ======================================================================
\* table.rs: callers of assemble, merge and columns
\* ======================================================================

\* Expiries (TtlTimestamp seconds) a column may carry.
Expiries == {None, Some(U32(5)), Some(U32(6))}

\* The records a caller may pass for one column id, or none for that id.
ColumnChoices(col_id, vals) ==
    {<<>>} \cup {<<ColumnData(col_id, U64(ts), ex, v)>> :
                    ts \in 0..1, ex \in Expiries, v \in {None} \cup {Some(x) : x \in vals}}

\* The non-empty lists of logical columns in ascending col_id.
ColumnLists ==
    {pk \o t \o i :
        pk \in ColumnChoices(0, {BigIntV(x) : x \in Pks}),
        t \in ColumnChoices(1, {TextV(x) : x \in Texts}),
        i \in ColumnChoices(2, {IntV(x) : x \in Ints})} \ {<<>>}

\* One outcome per buffer that assemble or merge can return.
Outcomes(a) == IF a.ok THEN {Ok(buf, 0) : buf \in a.v} ELSE {Fail}

Assembled(cols) == Outcomes(assemble(cols))

\* a.merge(b) for every buffer a of X and b of Y; a panic stays a panic.
MergeAll(X, Y) ==
    UNION {IF x.ok /\ y.ok THEN Outcomes(merge(SimpleSchema, x.v, y.v)) ELSE {Fail} :
              x \in X, y \in Y}

\* The columns() of each buffer.
ColumnsAll(X) == {IF x.ok THEN columns(SimpleSchema, x.v) ELSE Fail : x \in X}

\* assemble, then columns() on the view of the result.
RowAssemble ==
    /\ rows_out.op = "none"
    /\ \E cols \in ColumnLists : \E decoded \in ColumnsAll(Assembled(cols)) :
         /\ rows_in' = <<cols>>
         /\ rows_out' = [op |-> "assemble", results |-> <<decoded>>]
    /\ UNCHANGED <<clock_vars, mem_vars, ss_vars>>

\* Two rows of one primary key, written at different timestamps, merged in
\* both orders.
RowMergeBothWays ==
    /\ rows_out.op = "none"
    /\ \E ta \in 0..MaxTs, tb \in 0..MaxTs :
         /\ ta # tb
         /\ \E a \in LogicalRows(ta), b \in LogicalRows(tb) :
              /\ PkOf(a) = PkOf(b)
              /\ \E ab \in ColumnsAll(MergeAll(Assembled(a), Assembled(b))),
                    ba \in ColumnsAll(MergeAll(Assembled(b), Assembled(a))) :
                   /\ rows_in' = <<a, b>>
                   /\ rows_out' = [op |-> "merge2", results |-> <<ab, ba>>]
    /\ UNCHANGED <<clock_vars, mem_vars, ss_vars>>

\* Three rows of one primary key, written at different timestamps, merged
\* left first and right first.
RowMergeThree ==
    /\ rows_out.op = "none"
    /\ \E ta \in 0..MaxTs, tb \in 0..MaxTs, tc \in 0..MaxTs :
         /\ ta # tb /\ tb # tc /\ ta # tc
         /\ \E a \in LogicalRows(ta), b \in LogicalRows(tb), c \in LogicalRows(tc) :
              /\ PkOf(a) = Some(BigIntV(1)) /\ PkOf(b) = PkOf(a) /\ PkOf(c) = PkOf(a)
              /\ \E l \in ColumnsAll(MergeAll(MergeAll(Assembled(a), Assembled(b)),
                                                Assembled(c))),
                    r \in ColumnsAll(MergeAll(Assembled(a),
                                                MergeAll(Assembled(b), Assembled(c)))) :
                   /\ rows_in' = <<a, b, c>>
                   /\ rows_out' = [op |-> "merge3", results |-> <<l, r>>]
    /\ UNCHANGED <<clock_vars, mem_vars, ss_vars>>


\* Two rows of one primary key written at the same timestamp, merged.
RowMergeEqualTimestamps ==
    /\ rows_out.op = "none"
    /\ \E ts \in 0..MaxTs : \E a \in LogicalRows(ts), b \in LogicalRows(ts) :
         /\ PkOf(a) = PkOf(b)
         /\ \E ab \in MergeAll(Assembled(a), Assembled(b)) :
              /\ rows_in' = <<a, b>>
              /\ rows_out' = [op |-> "merge_eq", results |-> <<ab>>]
    /\ UNCHANGED <<clock_vars, mem_vars, ss_vars>>

\* The orders in which a caller may pass the columns of a list.
AnyOrder(cols) ==
    {[i \in 1..Len(cols) |-> cols[p[i]]] : p \in Permutations(1..Len(cols))}

\* assemble on the columns of a row passed in any order.
RowAssembleAnyOrder ==
    /\ rows_out.op = "none"
    /\ \E ts \in 0..MaxTs : \E lr \in LogicalRows(ts) : \E cols \in AnyOrder(lr) :
         \E a \in Assembled(cols) :
            /\ rows_in' = <<cols>>
            /\ rows_out' = [op |-> "assemble_any", results |-> <<a>>]
    /\ UNCHANGED <<clock_vars, mem_vars, ss_vars>>

\* The schema of the tests of table.rs: a partition key, a descending and an
\* ascending cluster key, a regular column; ids not in ascending order.
TestSchema ==
    << [col_id |-> 0,  tpe |-> "BigInt",  pk_spec |-> "PartitionKey"],
       [col_id |-> 33, tpe |-> "Int",     pk_spec |-> "ClusterDesc"],
       [col_id |-> 22, tpe |-> "Text",    pk_spec |-> "ClusterAsc"],
       [col_id |-> 11, tpe |-> "Boolean", pk_spec |-> "Regular"] >>

CmpKeys == {-1, 1}

\* The rows of test_compare_by_pk: the three key columns in declaration
\* order, then the regular column (a value, NULL or absent), all written at
\* one timestamp and with one expiry.
CmpRowsAt(ts, ex, regular) ==
    {<<ColumnData(0, U64(ts), ex, Some(BigIntV(v1))),
       ColumnData(33, U64(ts), ex, Some(IntV(v2))),
       ColumnData(22, U64(ts), ex, Some(TextV(v3)))>> \o r :
        v1 \in CmpKeys, v2 \in CmpKeys, v3 \in Texts, r \in regular}

CmpRegular(ts, ex) ==
    {<<>>} \cup {<<ColumnData(11, U64(ts), ex, v)>> :
                    v \in {None, Some(BooleanV(TRUE)), Some(BooleanV(FALSE))}}

CmpRows ==
    UNION {CmpRowsAt(ts, ex, CmpRegular(ts, ex)) : ts \in 0..1, ex \in {None, Some(U32(5))}}

CmpKeyRows ==
    UNION {CmpRowsAt(1, ex, {<<>>}) : ex \in {None, Some(U32(5))}}

\* Two rows compared both ways, and the first with itself.
RowCompare ==
    /\ rows_out.op = "none"
    /\ \E a \in CmpRows, b \in CmpRows :
         \E ra \in assemble(a).v, rb \in assemble(b).v :
            /\ rows_in' = <<a, b>>
            /\ rows_out' = [op |-> "compare",
                            results |-> <<compare_by_pk(TestSchema, ra, rb),
                                          compare_by_pk(TestSchema, rb, ra),
                                          compare_by_pk(TestSchema, ra, ra)>>]
    /\ UNCHANGED <<clock_vars, mem_vars, ss_vars>>

\* Three rows compared pairwise.
RowCompareThree ==
    /\ rows_out.op = "none"
    /\ \E a \in CmpKeyRows, b \in CmpKeyRows, c \in CmpKeyRows :
         \E ra \in assemble(a).v, rb \in assemble(b).v, rc \in assemble(c).v :
            /\ rows_in' = <<a, b, c>>
            /\ rows_out' = [op |-> "compare3",
                            results |-> <<compare_by_pk(TestSchema, ra, rb),
                                          compare_by_pk(TestSchema, rb, rc),
                                          compare_by_pk(TestSchema, ra, rc)>>]
    /\ UNCHANGED <<clock_vars, mem_vars, ss_vars>>


\* Column lists TableSchema::new accepts: it keeps the columns as given and
\* filters pk_columns out of them, whatever the order.  One schema declares
\* its key columns first, one declares a cluster key after a regular column.
KeysFirstSchema ==
    << [col_id |-> 0, tpe |-> "BigInt", pk_spec |-> "PartitionKey"],
       [col_id |-> 2, tpe |-> "Int",    pk_spec |-> "ClusterAsc"],
       [col_id |-> 1, tpe |-> "Text",   pk_spec |-> "Regular"] >>

LateKeySchema ==
    << [col_id |-> 0, tpe |-> "BigInt", pk_spec |-> "PartitionKey"],
       [col_id |-> 1, tpe |-> "Text",   pk_spec |-> "Regular"],
       [col_id |-> 2, tpe |-> "Int",    pk_spec |-> "ClusterAsc"] >>

Schemas == {KeysFirstSchema, LateKeySchema}

\* Rows with a value in every column of the schema, in declaration order, all
\* written at one timestamp and without expiry.
SchemaValues(col) ==
    CASE col.tpe = "BigInt" -> {BigIntV(x) : x \in Pks}
      [] col.tpe = "Int"    -> {IntV(x) : x \in {3, 4}}
      [] col.tpe = "Text"   -> {TextV(x) : x \in Texts}

SchemaRows(schema) ==
    {[i \in 1..Len(schema) |-> ColumnData(schema[i].col_id, U64(1), None, Some(vals[i]))] :
        vals \in {f \in [1..Len(schema) -> UNION {SchemaValues(schema[i]) : i \in 1..Len(schema)}] :
                     \A i \in 1..Len(schema) : f[i] \in SchemaValues(schema[i])}}

\* Two rows of one schema compared.
RowCompareBySchema ==
    /\ rows_out.op = "none"
    /\ \E schema \in Schemas : \E a \in SchemaRows(schema), b \in SchemaRows(schema) :
         \E ra \in assemble(a).v, rb \in assemble(b).v :
            /\ rows_in' = <<schema, a, b>>
            /\ rows_out' = [op |-> "compare_schema",
                            results |-> <<compare_by_pk(schema, ra, rb)>>]
    /\ UNCHANGED <<clock_vars, mem_vars, ss_vars>>


\* The offset at which assemble starts each column, the first one after the
\* row header.
RECURSIVE ColumnOffsets(_, _, _, _)
ColumnOffsets(cols, row_timestamp, row_expiry, offs) ==
    IF Len(cols) = 0 THEN <<>>
    ELSE <<offs>> \o ColumnOffsets(Tail(cols), row_timestamp, row_expiry,
                                   offs + Len(encode_column(cols[1], row_timestamp, row_expiry)))

\* The runs assemble can take on one column list: what its calls of
\* most_frequent_timestamp and most_frequent_expiry return, the buffer built
\* from that and where each column starts in it.
AssembleRuns(cols) ==
    {[buf |-> AssembleWith(cols, rt, t, re),
      col_offs |-> ColumnOffsets(cols, rt, re,
                                 Len(AssembleWith(<<>>, rt, t, re)))] :
        rt \in most_frequent_timestamp(cols),
        t  \in most_frequent_timestamp(cols),
        re \in most_frequent_expiry(cols)}

\* assemble called twice with the same schema and column list.
RowAssembleTwice ==
    /\ rows_out.op = "none"
    /\ \E cols \in ColumnLists : \E first \in AssembleRuns(cols), second \in AssembleRuns(cols) :
         /\ rows_in' = <<cols>>
         /\ rows_out' = [op |-> "assemble_twice", results |-> <<first, second>>]
    /\ UNCHANGED <<clock_vars, mem_vars, ss_vars>>


\* ======================================================================
\* time.rs: callers comparing merge timestamps
\* ======================================================================

\* #[derive(Ord)] of MergeTimestamp: the numeric order of the ticks.
TicksCmp(a, b) == BytesCmp(a, b)

\* Field values in range: epoch_millis 0, 1, 2^20 and 2^41 - 1 (as <<hi, lo>>),
\* the counter and the unique context at both ends of their ranges, every
\* time travel part.
EpochMillisChoices == {<<0, 0>>, <<0, 1>>, <<1, 0>>, <<2097151, 1048575>>}

TimestampFields ==
    {[epoch_millis |-> m, counter |-> c, unique_context |-> u, time_travel |-> t] :
        m \in EpochMillisChoices, c \in {0, 1, CounterPerMilli - 1},
        u \in {0, 1023}, t \in 0..TimeTravelMask}

\* Two timestamps built by MergeTimestamp::new.
TimestampCompare ==
    /\ rows_out.op = "none"
    /\ \E a \in TimestampFields, b \in TimestampFields :
         /\ MergeTimestampNewAsserts(a.unique_context, a.time_travel)
         /\ MergeTimestampNewAsserts(b.unique_context, b.time_travel)
         /\ rows_in' = <<a, b>>
         /\ rows_out' = [op |-> "timestamps",
                         results |-> <<MergeTimestampNew64(a.epoch_millis, a.counter,
                                                           a.unique_context, a.time_travel),
                                       MergeTimestampNew64(b.epoch_millis, b.counter,
                                                           b.unique_context, b.time_travel)>>]
    /\ UNCHANGED <<clock_vars, mem_vars, ss_vars>>


\* ======================================================================
\* tombstones.rs
\* ======================================================================

\* TombStoneFlags: the u8 of the four flag bits.
TombStoneFlags(has_lower, lower_inclusive, has_upper, upper_inclusive) ==
    (IF has_lower THEN 1 ELSE 0) + (IF lower_inclusive THEN 2 ELSE 0)
    + (IF has_upper THEN 4 ELSE 0) + (IF upper_inclusive THEN 8 ELSE 0)

lower_bound_inclusive(flags) == (flags \div 2) % 2 = 1
upper_bound_inclusive(flags) == (flags \div 8) % 2 = 1

\* TableSchema::new: pk_columns, the primary-key columns in declaration order.
PkColumns(schema) == SelectSeq(schema, LAMBDA c : c.pk_spec # "Regular")

\* PartialClusterKey::compare_to: one value of the key decoded by the type of
\* the schema column.
DecodeKeyValue(tpe, buf, offs) ==
    CASE tpe = "Boolean" -> DecodedValue(tpe, decode_bool(buf, offs))
      [] tpe = "Int"     -> DecodedValue(tpe, decode_varint_i32(buf, offs))
      [] tpe = "BigInt"  -> DecodedValue(tpe, decode_varint_i64(buf, offs))
      [] tpe = "Text"    -> DecodedValue(tpe, decode_utf8(buf, offs))

\* The loop of compare_to from primary-key column i on: offs is the position
\* in the key, row_offs the position of the row's column iterator.
RECURSIVE compare_to_loop(_, _, _, _, _, _)
compare_to_loop(schema, i, buf, offs, row_buf, row_offs) ==
    IF i > Len(PkColumns(schema)) THEN "Equal"
    ELSE IF offs >= Len(buf) THEN "Equal"
    ELSE LET Decide(cmp, next_offs, next_row_offs) ==
                 IF cmp # "Equal" THEN cmp
                 ELSE compare_to_loop(schema, i + 1, buf, next_offs, row_buf, next_row_offs)
             Compare(col, row_col) ==
                 IF ~col.ok THEN "Panic"
                 ELSE IF row_offs >= Len(row_buf) THEN "Panic"   \* incomplete cluster key
                 ELSE IF ~row_col.ok THEN "Panic"
                 ELSE IF ~IsSome(row_col.v.value) THEN "Panic"   \* cluster key is null
                 ELSE Decide(ColumnValueCmp(Unwrap(col.v), Unwrap(row_col.v.value)),
                             col.offs, row_col.offs)
         IN  Compare(DecodeKeyValue(PkColumns(schema)[i].tpe, buf, offs),
                     IF row_offs >= Len(row_buf) THEN Fail
                     ELSE ReadColOfRow(schema, row_buf, row_offs))

\* compare_to: the row's columns come from row.columns(), an iterator that
\* starts at offset 0.
compare_to(schema, buf, row_buf) == compare_to_loop(schema, 1, buf, 0, row_buf, 0)

\* TombStone::matches: "true", "false" or "Panic".
matches(schema, tomb, row_buf) ==
    LET Upper(c) ==
            CASE c = "Panic" -> "Panic"
              [] c = "Less"  -> "false"
              [] c = "Equal" -> IF ~upper_bound_inclusive(tomb.flags) THEN "false" ELSE "true"
              [] OTHER       -> "true"
        UpperBound ==
            IF IsSome(tomb.upper_bound)
            THEN Upper(compare_to(schema, Unwrap(tomb.upper_bound), row_buf))
            ELSE "true"
        Lower(c) ==
            CASE c = "Panic"   -> "Panic"
              [] c = "Greater" -> "false"
              [] c = "Equal"   -> IF ~lower_bound_inclusive(tomb.flags) THEN "false"
                                  ELSE UpperBound
              [] OTHER         -> UpperBound
    IN  IF IsSome(tomb.lower_bound)
        THEN Lower(compare_to(schema, Unwrap(tomb.lower_bound), row_buf))
        ELSE UpperBound

\* The keys a bound may hold: the values of a prefix of the primary key.
BoundKeys ==
    {<<>>}
    \cup {<<BigIntV(v1)>> : v1 \in CmpKeys}
    \cup {<<BigIntV(v1), IntV(v2)>> : v1 \in CmpKeys, v2 \in CmpKeys}
    \cup {<<BigIntV(v1), IntV(v2), TextV(v3)>> : v1 \in CmpKeys, v2 \in CmpKeys, v3 \in Texts}

\* The buffer of a PartialClusterKey: the encoded values, concatenated.
RECURSIVE EncodeKey(_)
EncodeKey(key) ==
    IF key = <<>> THEN <<>> ELSE EncodeValue(Some(key[1])) \o EncodeKey(Tail(key))

Bounds == {None} \cup {Some(k) : k \in BoundKeys}

\* The tombstones: each bound absent or a key, inclusive or not.
TombStones ==
    {[flags |-> TombStoneFlags(IsSome(lo), li, IsSome(up), ui),
      lower_key |-> lo,
      upper_key |-> up,
      lower_bound |-> IF IsSome(lo) THEN Some(EncodeKey(Unwrap(lo))) ELSE None,
      upper_bound |-> IF IsSome(up) THEN Some(EncodeKey(Unwrap(up))) ELSE None] :
        lo \in Bounds, up \in Bounds, li \in BOOLEAN, ui \in BOOLEAN}

\* A tombstone matched against a row with a complete primary key.
TombMatches ==
    /\ rows_out.op = "none"
    /\ \E tomb \in TombStones : \E ts \in 0..1 : \E row \in CmpRowsAt(ts, None, {<<>>}) :
         \E row_buf \in assemble(row).v :
            /\ rows_in' = <<row, tomb>>
            /\ rows_out' = [op |-> "matches",
                            results |-> <<matches(TestSchema, tomb, row_buf)>>]
    /\ UNCHANGED <<clock_vars, mem_vars, ss_vars>>


\* The tombstones of partition 1 whose bounds, where present, are complete
\* cluster keys, and the rows of that partition.
RangeTombStones ==
    LET InPartition(b) == ~IsSome(b) \/ (Len(Unwrap(b)) = 3 /\ Unwrap(b)[1] = BigIntV(1))
    IN  {t \in TombStones : InPartition(t.lower_key) /\ InPartition(t.upper_key)}

PartitionRows ==
    UNION {{row \in CmpRowsAt(ts, None, {<<>>}) : row[1].value = Some(BigIntV(1))} : ts \in 0..1}

\* A tombstone matched against three rows of one partition, and the order of
\* the rows under compare_by_pk.
TombMatchesThree ==
    /\ rows_out.op = "none"
    /\ \E tomb \in RangeTombStones :
         \E r1 \in PartitionRows, r2 \in PartitionRows, r3 \in PartitionRows :
           \E b1 \in assemble(r1).v, b2 \in assemble(r2).v, b3 \in assemble(r3).v :
              /\ rows_in' = <<tomb, r1, r2, r3>>
              /\ rows_out' = [op |-> "matches3",
                              results |-> <<matches(TestSchema, tomb, b1),
                                            matches(TestSchema, tomb, b2),
                                            matches(TestSchema, tomb, b3),
                                            compare_by_pk(TestSchema, b1, b2),
                                            compare_by_pk(TestSchema, b2, b3)>>]
    /\ UNCHANGED <<clock_vars, mem_vars, ss_vars>>

\* ======================================================================
\* sstable.rs
\* ======================================================================

\* The number a fixed-width value's digits stand for.
RECURSIVE DigitsToNat(_)
DigitsToNat(digits) ==
    IF Len(digits) = 0 THEN 0
    ELSE DigitsToNat(SubSeq(digits, 1, Len(digits) - 1)) * 256 + digits[Len(digits)]

\* RowData::write_to: the length as a varint, then the buffer.
write_to(buf) == encode_varint_usize(Len(buf)) \o buf

\* The loop of SsTable::create: per row, the position in the data file goes
\* to the index file and the row to the data file.
RECURSIVE CreateFiles(_, _, _)
CreateFiles(rows, index, dat) ==
    IF Len(rows) = 0 THEN [index |-> index, data |-> dat]
    ELSE CreateFiles(Tail(rows),
                     index \o encode_fixed_u64(U64(Len(dat))),
                     dat \o write_to(rows[1]))

\* SsTable::index_slice: the index mmap as u64s (a little-endian target).
index_slice(index) ==
    [i \in 1..(Len(index) \div 8) |->
        DigitsToNat(Reverse(SubSeq(index, (8 * (i - 1)) + 1, 8 * i)))]

\* SsTable::data_at: the length, then the slice of the data mmap.
data_at(dat, offs) ==
    LET Slice(len) ==
            IF ~len.ok THEN Fail
            ELSE IF len.offs + len.v > Len(dat) THEN Fail
            ELSE Ok(SubSeq(dat, len.offs + 1, len.offs + len.v), 0)
    IN  Slice(decode_varint_usize(dat, offs))

\* binary_search_by over the index with the closure of find_by_full_pk,
\* between the 0-based positions left and right.
RECURSIVE BinarySearchBy(_, _, _, _, _, _)
BinarySearchBy(schema, index, dat, pks, left, right) ==
    IF left >= right THEN [kind |-> "Err", idx |-> left]
    ELSE LET mid == left + ((right - left) \div 2)
             Branch(cmp) ==
                 CASE cmp = "Panic"   -> [kind |-> "Panic", idx |-> mid]
                   [] cmp = "Equal"   -> [kind |-> "Ok", idx |-> mid]
                   [] cmp = "Less"    -> BinarySearchBy(schema, index, dat, pks, mid + 1, right)
                   [] cmp = "Greater" -> BinarySearchBy(schema, index, dat, pks, left, mid)
             Compare(row) ==
                 IF ~row.ok THEN Branch("Panic")
                 ELSE Branch(compare_by_pk(schema, row.v, pks))
         IN  Compare(data_at(dat, index_slice(index)[mid + 1]))

\* An Err(e) of HtResult.
Err(e) == [ok |-> FALSE, err |-> e]
IsErr(r) == ~r.ok /\ "err" \in DOMAIN r

\* SsTable::find_by_full_pk. data_at ends in Ok(..) on its only path, so the
\* Err arms of the closure and of the final match are never taken: what is
\* left is a panic below data_at or compare_by_pk, Ok(None) and Ok(Some(row)).
find_by_full_pk(schema, index, dat, pks) ==
    LET Result(r) ==
            CASE r.kind = "Panic" -> Fail
              [] r.kind = "Err"   -> Ok(None, 0)
              [] r.kind = "Ok"    -> SomeOf(data_at(dat, index_slice(index)[r.idx + 1]))
    IN  Result(BinarySearchBy(schema, index, dat, pks, 0, Len(index_slice(index))))

\* The primary keys of the rows of an SSTable, and those a caller probes.
SsKeys == {(2 * k) - 1 : k \in 1..MaxSsRows}
SsProbeKeys == 0..(2 * MaxSsRows)

\* The rows written for one key: the key and a text, both with the expiry ex
\* or both without, as column list and as assembled buffer.
SsColumns(key, ex, t) ==
    <<ColumnData(0, U64(1), ex, Some(BigIntV(key))),
      ColumnData(1, U64(1), ex, Some(TextV(t)))>>

SsRowsOf(key) ==
    UNION {{[cols |-> SsColumns(key, ex, t), buf |-> buf] :
               buf \in assemble(SsColumns(key, ex, t)).v} :
           ex \in {None, Some(U32(5))}, t \in Texts}

\* Row sequences in strictly ascending order of the primary key.
RECURSIVE AscendingRows(_)
AscendingRows(keys) ==
    IF keys = {} THEN {<<>>}
    ELSE LET least == CHOOSE k \in keys : \A other \in keys : k <= other
             rest  == AscendingRows(keys \ {least})
         IN  rest \cup {<<row>> \o tail : row \in SsRowsOf(least), tail \in rest}

\* SsTable::create with a non-empty row sequence.
SsCreate ==
    /\ ss_state = "none"
    /\ \E rows \in AscendingRows(SsKeys) \ {<<>>} :
         LET files == CreateFiles([i \in 1..Len(rows) |-> rows[i].buf], <<>>, <<>>) IN
         /\ ss_rows' = rows
         /\ index_file' = files.index
         /\ data_file' = files.data
    /\ ss_state' = "created"
    /\ ss_create' = [files |-> {"index", "data"}, step |-> "done"]
    /\ UNCHANGED <<ss_probe, ss_found>>
    /\ UNCHANGED <<clock_vars, mem_vars, row_vars>>

\* SsTable::open by the name_base: the same two files, mapped again.
SsOpen ==
    /\ ss_state = "created"
    /\ ss_state' = "reopened"
    /\ UNCHANGED <<index_file, data_file, ss_rows, ss_probe, ss_found, ss_create>>
    /\ UNCHANGED <<clock_vars, mem_vars, row_vars>>

\* SsTable::find_by_full_pk with the row of a primary key alone.
SsFind ==
    /\ ss_state \in {"created", "reopened", "foreign"}
    /\ \E key \in SsProbeKeys :
         /\ ss_probe' = Some(BigIntV(key))
         /\ ss_found' = find_by_full_pk(SimpleSchema, index_file, data_file,
                                         PkRow(Some(BigIntV(key))))
    /\ UNCHANGED <<index_file, data_file, ss_rows, ss_state, ss_create>>
    /\ UNCHANGED <<clock_vars, mem_vars, row_vars>>

\* s with the byte at the 0-based position pos replaced by b.
WithByte(s, pos, b) == [i \in 1..Len(s) |-> IF i = pos + 1 THEN b ELSE s[i]]

\* Index and data files of one row that SsTable::create did not write: the
\* id of the key column or of the text column is one the schema does not
\* have, the key column holds a text, the length in front of the row or the
\* offset in the index points past the end of the data file.
ForeignFilesOf(key, t) ==
    LET row == CHOOSE b \in assemble(<<ColumnData(0, U64(1), None, Some(BigIntV(key))),
                                       ColumnData(1, U64(1), None, Some(TextV(t)))>>).v : TRUE
        text_key == CHOOSE b \in assemble(<<ColumnData(0, U64(1), None, Some(TextV(t))),
                                            ColumnData(1, U64(1), None, Some(TextV(t)))>>).v : TRUE
        start == offs_start_column_data(row).offs
        second == ReadColOfRow(SimpleSchema, row, start).offs
        At0(dat) == [index |-> encode_fixed_u64(U64(0)), data |-> dat]
    IN  {At0(write_to(WithByte(row, start, 9))),
         At0(write_to(WithByte(row, second, 9))),
         At0(write_to(text_key)),
         At0(encode_varint_usize(Len(row) + 5) \o row),
         [index |-> encode_fixed_u64(U64(Len(write_to(row)) + 3)), data |-> write_to(row)]}

ForeignFiles == UNION {ForeignFilesOf(key, t) : key \in SsKeys, t \in Texts}

\* SsTable::open by the name_base of files with a malformed row.
SsOpenForeign ==
    /\ ss_state = "none"
    /\ \E files \in ForeignFiles :
         /\ index_file' = files.index
         /\ data_file' = files.data
    /\ ss_state' = "foreign"
    /\ ss_create' = [files |-> {"index", "data"}, step |-> "done"]
    /\ UNCHANGED <<ss_rows, ss_probe, ss_found>>
    /\ UNCHANGED <<clock_vars, mem_vars, row_vars>>

\* SsTable::create step by step, each write to a file a step of its own.
\* Line 50: new_file(.., "index", true) creates the index file.
SsCreateIndexFile ==
    /\ ss_state = "none"
    /\ \E rows \in AscendingRows(SsKeys) \ {<<>>} : ss_rows' = rows
    /\ ss_state' = "creating"
    /\ ss_create' = [files |-> {"index"}, step |-> "data_file"]
    /\ index_file' = <<>>
    /\ UNCHANGED <<data_file, ss_probe, ss_found>>
    /\ UNCHANGED <<clock_vars, mem_vars, row_vars>>

\* Line 51: new_file(.., "data", true) creates the data file.
SsCreateDataFile ==
    /\ ss_state = "creating" /\ ss_create.step = "data_file"
    /\ ss_create' = [files |-> ss_create.files \cup {"data"}, step |-> "index_entry"]
    /\ data_file' = <<>>
    /\ UNCHANGED <<index_file, ss_rows, ss_state, ss_probe, ss_found>>
    /\ UNCHANGED <<clock_vars, mem_vars, row_vars>>

\* Lines 54-55: the position in the data file is written to the index file.
SsCreateIndexEntry ==
    /\ ss_state = "creating" /\ ss_create.step = "index_entry"
    /\ index_file' = index_file \o encode_fixed_u64(U64(Len(data_file)))
    /\ ss_create' = [ss_create EXCEPT !.step = "row"]
    /\ UNCHANGED <<data_file, ss_rows, ss_state, ss_probe, ss_found>>
    /\ UNCHANGED <<clock_vars, mem_vars, row_vars>>

\* Line 57: row.write_to(&mut data_file), for the row whose index entry was
\* written last.
SsCreateRow ==
    /\ ss_state = "creating" /\ ss_create.step = "row"
    /\ data_file' = data_file \o write_to(ss_rows[Len(index_file) \div 8].buf)
    /\ ss_create' = [ss_create EXCEPT !.step = IF Len(index_file) \div 8 < Len(ss_rows)
                                               THEN "index_entry" ELSE "flush"]
    /\ UNCHANGED <<index_file, ss_rows, ss_state, ss_probe, ss_found>>
    /\ UNCHANGED <<clock_vars, mem_vars, row_vars>>

\* Lines 63-66: both files are flushed and the table is opened.
SsCreateFlush ==
    /\ ss_state = "creating" /\ ss_create.step = "flush"
    /\ ss_state' = "created"
    /\ ss_create' = [ss_create EXCEPT !.step = "done"]
    /\ UNCHANGED <<index_file, data_file, ss_rows, ss_probe, ss_found>>
    /\ UNCHANGED <<clock_vars, mem_vars, row_vars>>

\* create stops before it has flushed: the process crashes, or a write
\* returns an I/O error that `?` hands to the caller.  A row being written may
\* have reached the data file in part.
SsCreateStop ==
    /\ ss_state = "creating"
    /\ ss_state' = "stopped"
    /\ IF ss_create.step = "row"
       THEN \E n \in 0..Len(write_to(ss_rows[Len(index_file) \div 8].buf)) - 1 :
                data_file' = data_file
                             \o SubSeq(write_to(ss_rows[Len(index_file) \div 8].buf), 1, n)
       ELSE data_file' = data_file
    /\ UNCHANGED <<index_file, ss_rows, ss_probe, ss_found, ss_create>>
    /\ UNCHANGED <<clock_vars, mem_vars, row_vars>>

\* ======================================================================
\* primitives.rs: callers writing values and reading them back
\* ======================================================================

\* i32 and i64 values around zero, around the one-byte limit and at both ends
\* of the range.
SignedValues(width) ==
    LET Minus(n) == IncBits(NotBits(Bits(n, width)))
    IN  {Bits(0, width), Bits(1, width), Minus(1), Bits(63, width), Bits(64, width),
         Minus(64), Minus(65), Bits(1073741824, width), MaxBits(width),
         IncBits(MinBits(width)), MinBits(width)}

encode_varint_signed(value, overflow_checks) ==
    IF Len(value) = 32 THEN encode_varint_i32_bits(value, overflow_checks)
                       ELSE encode_varint_i64_bits(value, overflow_checks)

decode_varint_signed(width, buf, offs, overflow_checks) ==
    IF width = 32 THEN decode_varint_i32_bits(buf, offs, overflow_checks)
                  ELSE decode_varint_i64_bits(buf, offs, overflow_checks)

\* buf.encode_varint_iN(value); buf.decode_varint_iN(&mut 0)
SignedRoundTrip ==
    /\ rows_out.op = "none"
    /\ \E width \in {32, 64}, overflow_checks \in BOOLEAN :
         \E value \in SignedValues(width) :
           LET Read(enc) == IF enc.ok
                            THEN decode_varint_signed(width, enc.v, 0, overflow_checks)
                            ELSE Fail
           IN  /\ rows_in' = <<value>>
               /\ rows_out' = [op |-> "signed_round_trip",
                               results |-> <<Read(encode_varint_signed(value, overflow_checks))>>]
    /\ UNCHANGED <<clock_vars, mem_vars, ss_vars>>

\* The values written: unsigned varints, fixed-width integers, booleans and
\* strings, with zero, the largest value of each type, the empty string and a
\* string with a two-byte character.
PrimItems ==
    [kind : {"varint_u32"}, v : {Bits(0, 32), Bits(128, 32), OnesBits(32)}]
    \cup [kind : {"varint_u64"}, v : {Bits(300, 64), OnesBits(64)}]
    \cup [kind : {"varint_usize"}, v : {Bits(127, 64), OnesBits(64)}]
    \cup [kind : {"fixed_u32"}, v : {U32(1), <<255, 255, 255, 255>>}]
    \cup [kind : {"fixed_u64"}, v : {U64(258), <<255, 255, 255, 255, 255, 255, 255, 255>>}]
    \cup [kind : {"bool"}, v : {<<0>>, <<1>>}]
    \cup [kind : {"utf8"}, v : {<<>>, <<97, 45>>, <<195, 164>>}]

PrimItemSeqs == UNION {[1..n -> PrimItems] : n \in 0..MaxItems}

\* buf.encode_xxx(value) by the kind of the value
EncodeItem(item) ==
    CASE item.kind \in {"varint_u32", "varint_u64", "varint_usize"} -> encode_varint_bits(item.v)
      [] item.kind = "fixed_u32" -> encode_fixed_u32(item.v)
      [] item.kind = "fixed_u64" -> encode_fixed_u64(item.v)
      [] item.kind = "bool"      -> encode_bool(item.v[1] = 1)
      [] item.kind = "utf8"      -> encode_utf8(item.v)

RECURSIVE EncodeItems(_, _)
EncodeItems(items, i) ==
    IF i > Len(items) THEN <<>> ELSE EncodeItem(items[i]) \o EncodeItems(items, i + 1)

\* buf.decode_xxx(&mut offs) by the kind of the value
DecodeItem(kind, buf, offs, overflow_checks) ==
    LET AsBytes(d) == IF d.ok THEN Ok(IF d.v THEN <<1>> ELSE <<0>>, d.offs) ELSE Fail
    IN  CASE kind = "varint_u32"   -> decode_varint_u32_bits(buf, offs, overflow_checks)
          [] kind = "varint_u64"   -> decode_varint_u64_bits(buf, offs, overflow_checks)
          [] kind = "varint_usize" -> decode_varint_usize_bits(buf, offs, overflow_checks)
          [] kind = "fixed_u32"    -> decode_fixed_u32(buf, offs)
          [] kind = "fixed_u64"    -> decode_fixed_u64(buf, offs)
          [] kind = "bool"         -> AsBytes(decode_bool(buf, offs))
          [] kind = "utf8"         -> decode_utf8(buf, offs)

\* The decodes in the order of the writes, one offset carried through; a
\* panic ends the reading.
RECURSIVE DecodeItems(_, _, _, _, _)
DecodeItems(items, i, buf, offs, overflow_checks) ==
    LET Then(d) == IF d.ok THEN <<d>> \o DecodeItems(items, i + 1, buf, d.offs, overflow_checks)
                   ELSE <<d>>
    IN  IF i > Len(items) THEN <<>>
        ELSE Then(DecodeItem(items[i].kind, buf, offs, overflow_checks))

\* Values written back to back into one buffer and read from offset 0.
WriteThenRead ==
    /\ rows_out.op = "none"
    /\ \E items \in PrimItemSeqs, overflow_checks \in BOOLEAN :
         LET Read(buf) == [op |-> "write_then_read", buf |-> buf,
                           results |-> DecodeItems(items, 1, buf, 0, overflow_checks)]
         IN  /\ rows_in' = items
             /\ rows_out' = Read(EncodeItems(items, 1))
    /\ UNCHANGED <<clock_vars, mem_vars, ss_vars>>



\* ======================================================================
\* Specifications
\* ======================================================================

\* A clock constructed with unique context 0 and time travel counter 0.
ClockQuiet ==
    /\ ClockInit
    /\ counter = 0
    /\ time_travel_counter = 0
    /\ unique_context = 0

RowInit ==
    /\ rows_in = <<>>
    /\ rows_out = [op |-> "none", results |-> <<>>]

SsInit ==
    /\ index_file = <<>>
    /\ data_file = <<>>
    /\ ss_rows = <<>>
    /\ ss_state = "none"
    /\ ss_probe = None
    /\ ss_found = Fail
    /\ ss_create = [files |-> {}, step |-> "none"]

Init == ClockInit /\ MemInit /\ RowInit /\ SsInit

\* The state with a clock nobody calls.
QuietInit == ClockQuiet /\ MemInit /\ RowInit /\ SsInit

\* Threads calling WallClock::now while the system clock moves either way.
Next ==
    \/ WallForward
    \/ WallBackward
    \/ \E t \in Threads : NowRead(t)
    \/ \E t \in Threads : NowLocked(t)

Spec == Init /\ [][Next]_vars

\* The same while the system clock never goes backward.
ClockMonoNext ==
    \/ WallForward
    \/ \E t \in Threads : NowRead(t)
    \/ \E t \in Threads : NowLocked(t)

SpecClockMono == Init /\ [][ClockMonoNext]_vars

\* One caller, one call after the other, while the system clock never goes
\* backward.
ClockSeqNext ==
    \/ WallForward
    \/ NowRead("t1")
    \/ NowLocked("t1")

SpecClockSeq == Init /\ [][ClockSeqNext]_vars

\* Callers assembling, merging and decoding rows.
RowNext ==
    \/ RowAssemble
    \/ RowMergeBothWays
    \/ RowMergeThree
    \/ RowMergeEqualTimestamps
    \/ RowAssembleAnyOrder

SpecRow == QuietInit /\ [][RowNext]_vars

\* Callers comparing rows by primary key.
CmpNext ==
    \/ RowCompare
    \/ RowCompareThree

SpecCmp == QuietInit /\ [][CmpNext]_vars

\* Callers matching tombstones against rows.
TombNext == TombMatches

SpecTomb == QuietInit /\ [][TombNext]_vars

\* Callers building and comparing merge timestamps.
TsNext == TimestampCompare

SpecTs == QuietInit /\ [][TsNext]_vars

\* Callers of the encoders and decoders of primitives.rs.
PrimNext ==
    \/ SignedRoundTrip
    \/ WriteThenRead

SpecPrim == QuietInit /\ [][PrimNext]_vars

\* Callers assembling one column list more than once.
AsmNext == RowAssembleTwice

SpecAsm == QuietInit /\ [][AsmNext]_vars

\* Callers comparing rows of schemas with the key columns declared anywhere.
SchemaNext == RowCompareBySchema

SpecSchema == QuietInit /\ [][SchemaNext]_vars

\* Callers matching one tombstone against several rows of a partition.
TombRangeNext == TombMatchesThree

SpecTombRange == QuietInit /\ [][TombRangeNext]_vars

\* A caller building an SSTable, reopening it and looking rows up.
SsNext ==
    \/ SsCreate
    \/ SsOpen
    \/ SsFind

SpecSs == QuietInit /\ [][SsNext]_vars

\* A caller opening files with a malformed row and looking rows up.
SsForeignNext ==
    \/ SsOpenForeign
    \/ SsFind

SpecSsForeign == QuietInit /\ [][SsForeignNext]_vars

\* SsTable::create write by write, stopping at any point.
SsCrashNext ==
    \/ SsCreateIndexFile
    \/ SsCreateDataFile
    \/ SsCreateIndexEntry
    \/ SsCreateRow
    \/ SsCreateFlush
    \/ SsCreateStop

SpecSsCrash == QuietInit /\ [][SsCrashNext]_vars

\* Callers adding rows to one memtable.
MemNext == MemAdd

SpecMem == QuietInit /\ [][MemNext]_vars


\* ======================================================================
\* Properties of WallClock::now
\* ======================================================================

\* A call of now() completes in this step.
NowReturns(t) == pc[t] = "read" /\ pc'[t] = "idle"

C2IncreasingInMutexOrder ==
    [][\A t \in Threads :
          (NowReturns(t) /\ last_ts # NoTs) => last_ts' > last_ts]_vars

FieldsOf(f) ==
    <<f.epoch_millis[1], f.epoch_millis[2], f.counter, f.unique_context, f.time_travel>>

\* C19: for field values in range, comparing two timestamps built by
\* MergeTimestamp::new by their ticks gives the same result as comparing
\* (epoch_millis, counter, unique_context, time_travel) lexicographically.
C19TicksOrderIsFieldOrder ==
    rows_out.op = "timestamps" =>
        TicksCmp(rows_out.results[1], rows_out.results[2])
            = BytesCmp(FieldsOf(rows_in[1]), FieldsOf(rows_in[2]))

\* Two timestamps with every field at its maximum but the time travel part,
\* 7 against 0: the first has all 64 bits set and is the greater.
C19Witness ==
    /\ rows_out.op = "timestamps"
    /\ FieldsOf(rows_in[1]) = <<2097151, 1048575, CounterPerMilli - 1, 1023, TimeTravelMask>>
    /\ FieldsOf(rows_in[2]) = <<2097151, 1048575, CounterPerMilli - 1, 1023, 0>>
    /\ rows_out.results[1] = <<2097151, 1048575, 8388607>>
    /\ TicksCmp(rows_out.results[1], rows_out.results[2]) = "Greater"

\* The epoch_millis field of ticks.
EpochMillisOf(ticks) == ticks \div 8388608

\* C20: when the counter has passed 1023 within a millisecond, the timestamp a
\* call returns carries an epoch_millis field beyond the millisecond the call
\* read, and while the system clock stands or advances by any number of
\* milliseconds every call returns ticks strictly greater than the call
\* before it, across the overflow and across the advance.
C20OverflowKeepsIncreasing ==
    [][(NowReturns("t1") /\ last_ts # NoTs) =>
          /\ last_ts' > last_ts
          /\ counter' >= CounterPerMilli => EpochMillisOf(last_ts') > millis["t1"]]_vars

\* 2047 calls in millisecond 0, then two calls that read millisecond 1: the
\* counter is 1025 and the timestamp carries millisecond 2.
C20Witness ==
    /\ pc["t1"] = "idle"
    /\ cur_epoch_millis = 1
    /\ counter = CounterPerMilli + 1
    /\ EpochMillisOf(last_ts) = 2

\* The counter field of a timestamp's ticks.
CounterOf(ticks) == (ticks \div 8192) % 1024

\* C26: a call of now() whose reading is strictly smaller than the epoch
\* observed last sets the time travel counter to (tt + 1) mod 8 and the
\* observed epoch to the reading, returns a timestamp with counter field 1 and
\* calls on_time_travel exactly once, with the reading, the epoch observed
\* before and the new time travel counter; a call whose reading is not smaller
\* leaves the time travel counter alone and does not call on_time_travel.
C26TimeTravelBranch ==
    [][\A t \in Threads :
          (pc[t] = "read" /\ pc'[t] = "idle") =>
              IF millis[t] < cur_epoch_millis
              THEN /\ time_travel_counter' = (time_travel_counter + 1) % 8
                   /\ cur_epoch_millis' = millis[t]
                   /\ CounterOf(last_ts') = 1
                   /\ time_travel_calls' =
                          <<[cur_millis |-> millis[t], prev_millis |-> cur_epoch_millis,
                             new_time_travel_counter |-> (time_travel_counter + 1) % 8]>>
              ELSE /\ time_travel_counter' = time_travel_counter
                   /\ time_travel_calls' = <<>>]_vars

\* A call of now() read millisecond 0 after millisecond 2 had been observed,
\* with the time travel counter wrapping from 7 to 0.
C26Witness ==
    /\ last_back
    /\ Len(time_travel_calls) = 1
    /\ time_travel_calls[1].cur_millis = 0
    /\ time_travel_calls[1].prev_millis = 2
    /\ time_travel_calls[1].new_time_travel_counter = 0

\* C28: while the system clock never goes backward, the time travel counter
\* keeps the value the clock was constructed with and on_time_travel is never
\* called, also when threads take the mutex in another order than they read
\* the clock.
C28NoTimeTravelOnMonotonicClock ==
    [][time_travel_counter' = time_travel_counter /\ time_travel_calls' = <<>>]_vars


\* ======================================================================
\* Properties of MemTable
\* ======================================================================

\* The probes a caller can build: any row of any timestamp.
Probes == UNION {LogicalRows(ts) : ts \in 0..MaxTs}

\* C4: after adds with distinct-timestamp writes, get(probe) returns a stored
\* row if and only if some added row has the probe's primary key, whatever the
\* probe's timestamps and regular columns are.
C4GetFindsExactlyAddedKeys ==
    mem_status = "ok" =>
        \A lr \in Probes : \A probe \in assemble(lr).v :
            LET found == MemTableGet(SimpleSchema, data, probe) IN
            /\ found.ok
            /\ IsSome(found.v) <=> (\E a \in added : PkOf(a) = PkOf(lr))

\* The occurrences of column col_id in the added rows of primary key pk.
Occurrences(pk, col_id) ==
    UNION {{a[i] : i \in {j \in 1..Len(a) : a[j].col_id = col_id}} :
              a \in {r \in added : PkOf(r) = pk}}

\* C5: after adds for one primary key with distinct timestamps per column, the
\* row get returns holds for each column id that occurs in an added row the
\* value (or NULL) of the occurrence with the greatest timestamp; a column a
\* later row does not mention keeps its earlier value.
C5GetHoldsLatestWrites ==
    mem_status = "ok" =>
        \A pk \in {PkOf(a) : a \in added} :
            LET found == MemTableGet(SimpleSchema, data, PkRow(pk)) IN
            /\ found.ok
            /\ IsSome(found.v)
            /\ \A col_id \in 0..2 : \A latest \in Occurrences(pk, col_id) :
                  (\A o \in Occurrences(pk, col_id) :
                       ~DigitsLess(latest.timestamp, o.timestamp))
                  => LET col == read_col_by_id(SimpleSchema, Unwrap(found.v), col_id) IN
                     /\ col.ok
                     /\ IsSome(col.v)
                     /\ Unwrap(col.v).value = latest.value

\* C10: when the merge inside add fails, the memtable still holds the row it
\* held for that primary key and its size is unchanged.
C10FailedMergeKeepsRow ==
    [][mem_status' = "panic_merge" => (data' = data /\ size' = size)]_vars


\* The sum of the buffer lengths of the stored rows.
RECURSIVE SumLen(_)
SumLen(d) == IF d = <<>> THEN 0 ELSE Len(d[1]) + SumLen(Tail(d))

C12RowsUniqueAndAscending ==
    /\ mem_status # "panic_insert"
    /\ mem_status = "ok" =>
          \A i \in 1..Len(data) : \A j \in 1..Len(data) :
              i < j => compare_by_pk(SimpleSchema, data[i], data[j]) = "Less"

\* ======================================================================
\* Properties of assemble, merge and columns
\* ======================================================================

\* Both results of an operation were decoded and are the same column list.
SameDecodedColumns ==
    /\ rows_out.results[1].ok
    /\ rows_out.results[2].ok
    /\ rows_out.results[1].v = rows_out.results[2].v

\* C6: for two rows of one primary key whose columns of the same id have
\* different timestamps, merge(a, b) and merge(b, a) decode, by columns(), to
\* the same list of logical columns.
C6MergeCommutes ==
    rows_out.op = "merge2" => SameDecodedColumns

\* C7: for three such rows, merge(merge(a, b), c) and merge(a, merge(b, c))
\* decode to the same list of logical columns.
C7MergeAssociates ==
    rows_out.op = "merge3" => SameDecodedColumns

\* C8: for a non-empty column list in ascending col_id, columns() on the view
\* of assemble(schema, columns) yields exactly the input records, in order.
C8ColumnsOfAssembledAreTheInput ==
    rows_out.op = "assemble" =>
        /\ rows_out.results[1].ok
        /\ rows_out.results[1].v = rows_in[1]


\* Two column lists hold a column of the same id and timestamp that differs
\* in value or expiry.
ConflictingColumns(a, b) ==
    \E i \in 1..Len(a), j \in 1..Len(b) :
        /\ a[i].col_id = b[j].col_id
        /\ a[i].timestamp = b[j].timestamp
        /\ a[i] # b[j]

\* C13: when both rows given to merge hold a column of the same id with equal
\* timestamps and the two columns differ, merge fails its assertion: it never
\* returns a row that keeps one of the two.
C13EqualTimestampsAreAsserted ==
    (rows_out.op = "merge_eq" /\ ConflictingColumns(rows_in[1], rows_in[2]))
        => ~rows_out.results[1].ok

\* The value of column col_id in a list of logical columns.
ValueIn(cols, col_id) ==
    Unwrap(cols[CHOOSE k \in 1..Len(cols) : cols[k].col_id = col_id].value)

\* The lexicographic comparison of the primary-key values of two logical rows
\* in schema declaration order, reversed per descending cluster key.
RECURSIVE PkLexCmp(_, _, _, _)
PkLexCmp(schema, i, a, b) ==
    IF i > Len(schema) THEN "Equal"
    ELSE IF schema[i].pk_spec = "Regular" THEN PkLexCmp(schema, i + 1, a, b)
    ELSE LET c == ColumnValueCmp(ValueIn(a, schema[i].col_id), ValueIn(b, schema[i].col_id))
         IN  IF c = "Equal" THEN PkLexCmp(schema, i + 1, a, b)
             ELSE IF schema[i].pk_spec = "ClusterDesc" THEN OrderingReverse(c)
             ELSE c

\* C14: compare_by_pk(a, b) is the lexicographic comparison of the primary-key
\* values of a and b in declaration order, reversed for a descending cluster
\* key; the regular column (a value, NULL or absent) does not influence it.
C14CompareIsLexicographic ==
    rows_out.op = "compare" =>
        rows_out.results[1] = PkLexCmp(TestSchema, 1, rows_in[1], rows_in[2])

\* C15: compare_by_pk is a total order on primary keys: compare(a, a) is
\* Equal, compare(a, b) is the reverse of compare(b, a), and it is transitive.
C15CompareIsTotalOrder ==
    /\ rows_out.op = "compare" =>
          /\ rows_out.results[3] = "Equal"
          /\ rows_out.results[1] \in {"Less", "Equal", "Greater"}
          /\ rows_out.results[2] = OrderingReverse(rows_out.results[1])
    /\ rows_out.op = "compare3" =>
          /\ \A k \in 1..3 : rows_out.results[k] \in {"Less", "Equal", "Greater"}
          /\ (rows_out.results[1] # "Greater" /\ rows_out.results[2] # "Greater")
                => /\ rows_out.results[3] # "Greater"
                   /\ rows_out.results[3] = "Equal"
                         => (rows_out.results[1] = "Equal" /\ rows_out.results[2] = "Equal")

\* RowColumnIter::new: the columns of a buffer from the start of the column
\* data on.
RowColumnIterNew(schema, buf) ==
    LET From(start) ==
            IF ~start.ok THEN Fail ELSE IterCollect(schema, buf, start.offs, <<>>)
    IN  From(offs_start_column_data(buf))

\* The length of the header assemble wrote: flags, timestamp, row expiry.
HeaderLen(buf) == IF RowFlagsHasRowExpiry(buf[1]) THEN 1 + 8 + 4 ELSE 1 + 8

\* The first column of the buffer, if it is the primary-key column 0, is
\* non-NULL and has neither a timestamp nor an expiry of its own.
PkColumnIsPlain(buf) ==
    (Len(buf) >= HeaderLen(buf) + 2 /\ buf[HeaderLen(buf) + 1] = 0) =>
        LET col_flags == buf[HeaderLen(buf) + 2] IN
        /\ ~ColumnFlagsIsNull(col_flags)
        /\ ~ColumnFlagsHasColTimestamp(col_flags)
        /\ ColumnFlagsExpiry(col_flags) # "ColumnExpiry"

\* The buffers of merge(a, b) for the two rows of rows_in.
MergedBuffers ==
    {x.v : x \in {y \in MergeAll(Assembled(rows_in[1]), Assembled(rows_in[2])) : y.ok}}

\* C17: in every row buffer produced by assemble or by merge each primary-key
\* column is non-NULL and has the has_column_timestamp and has_column_expiry
\* flags clear.
C17PkColumnsArePlain ==
    /\ rows_out.op = "assemble" => \A buf \in assemble(rows_in[1]).v : PkColumnIsPlain(buf)
    /\ rows_out.op = "merge2" => \A buf \in MergedBuffers : PkColumnIsPlain(buf)

\* The column ids of a buffer are strictly ascending.
AscendingColumnIds(buf) ==
    LET Ascending(c) ==
            /\ c.ok
            /\ \A i \in 1..Len(c.v) : \A j \in 1..Len(c.v) :
                  i < j => c.v[i].col_id < c.v[j].col_id
    IN  Ascending(RowColumnIterNew(SimpleSchema, buf))

\* C18: in every row buffer produced by assemble, whatever the order of the
\* input column list, and in every row produced by merge, the column ids are
\* strictly ascending and no column id occurs twice.
C18ColumnIdsAscend ==
    /\ rows_out.op = "assemble_any" =>
          (rows_out.results[1].ok /\ AscendingColumnIds(rows_out.results[1].v))
    /\ rows_out.op = "merge2" => \A buf \in MergedBuffers : AscendingColumnIds(buf)

\* C24: assemble is deterministic: two calls with the same schema and the
\* same column list return byte-identical buffers, also when several
\* timestamps or expiries tie for most frequent; within one call the tied
\* timestamp chosen is the same each time it is computed.
C24AssembleIsDeterministic ==
    rows_out.op = "assemble_twice" =>
        rows_out.results[1].buf = rows_out.results[2].buf

\* C27: in a buffer built by assemble no column has both has_column_expiry
\* (bit 2) and uses_row_expiry (bit 3) set; a column has uses_row_expiry only
\* if the row flags have has_row_expiry; and the row flags have has_row_expiry
\* exactly when at least one input column has an expiry.
C27ExpiryFlagsAreConsistent ==
    rows_out.op = "assemble_twice" =>
        \A r \in 1..2 :
            LET run == rows_out.results[r]
                cols == rows_in[1]
                col_flags(i) == run.buf[run.col_offs[i] + 2]
                has_row_expiry == RowFlagsHasRowExpiry(run.buf[1])
            IN  /\ \A i \in 1..Len(cols) :
                     /\ ~(Bit(col_flags(i), 4) /\ Bit(col_flags(i), 8))
                     /\ Bit(col_flags(i), 8) => has_row_expiry
                /\ has_row_expiry <=> \E i \in 1..Len(cols) : IsSome(cols[i].expiry)

\* A row of three columns with two different expiries was assembled: one
\* column uses the row expiry, another has a column expiry of its own.
C27Witness ==
    /\ rows_out.op = "assemble_twice"
    /\ Len(rows_in[1]) = 3
    /\ RowFlagsHasRowExpiry(rows_out.results[1].buf[1])
    /\ \E i \in 1..3, j \in 1..3 :
         /\ Bit(rows_out.results[1].buf[rows_out.results[1].col_offs[i] + 2], 8)
         /\ Bit(rows_out.results[1].buf[rows_out.results[1].col_offs[j] + 2], 4)

\* The value a column list holds for the column id.
ValueOfColumn(cols, col_id) ==
    (CHOOSE c \in {cols[i] : i \in 1..Len(cols)} : c.col_id = col_id).value

\* C29: for every schema TableSchema::new accepts, compare_by_pk(a, b) is
\* Equal exactly when a and b hold equal values in every column of
\* schema.pk_columns, wherever the key columns are declared relative to the
\* regular columns.
C29EqualIffAllKeyColumnsEqual ==
    rows_out.op = "compare_schema" =>
        LET pk_columns == PkColumns(rows_in[1]) IN
        (rows_out.results[1] = "Equal")
            <=> \A i \in 1..Len(pk_columns) :
                    ValueOfColumn(rows_in[2], pk_columns[i].col_id)
                        = ValueOfColumn(rows_in[3], pk_columns[i].col_id)


\* ======================================================================
\* Properties of TombStone
\* ======================================================================

\* A bound's key compared with the primary-key prefix of a logical row.
RECURSIVE KeyCmpRow(_, _, _)
KeyCmpRow(key, row, i) ==
    IF i > Len(key) THEN "Equal"
    ELSE LET c == ColumnValueCmp(key[i], Unwrap(row[i].value))
         IN  IF c = "Equal" THEN KeyCmpRow(key, row, i + 1) ELSE c

\* The row's prefix is above the lower bound, or on it and the bound is
\* inclusive; and likewise below the upper bound.
WithinBounds(tomb, row) ==
    /\ \/ ~IsSome(tomb.lower_key)
       \/ KeyCmpRow(Unwrap(tomb.lower_key), row, 1) = "Less"
       \/ KeyCmpRow(Unwrap(tomb.lower_key), row, 1) = "Equal"
             /\ lower_bound_inclusive(tomb.flags)
    /\ \/ ~IsSome(tomb.upper_key)
       \/ KeyCmpRow(Unwrap(tomb.upper_key), row, 1) = "Greater"
       \/ KeyCmpRow(Unwrap(tomb.upper_key), row, 1) = "Equal"
             /\ upper_bound_inclusive(tomb.flags)

\* C16: matches(row) is true if and only if the row's primary-key prefix is
\* within the bounds the tombstone has, by their inclusivity; a tombstone
\* without bounds matches every row.
C16MatchesIffWithinBounds ==
    rows_out.op = "matches" =>
        rows_out.results[1] = (IF WithinBounds(rows_in[2], rows_in[1]) THEN "true" ELSE "false")

\* C30: the rows a tombstone matches are contiguous in the order of
\* compare_by_pk: of three rows of one partition with r1 <= r2 <= r3, if the
\* tombstone matches r1 and r3 it matches r2, also with a cluster key column
\* declared descending.
C30MatchedRowsAreContiguous ==
    rows_out.op = "matches3" =>
        ((/\ rows_out.results[4] \in {"Less", "Equal"}
          /\ rows_out.results[5] \in {"Less", "Equal"}
          /\ rows_out.results[1] = "true"
          /\ rows_out.results[3] = "true")
            => rows_out.results[2] = "true")

\* ======================================================================
\* Properties of SsTable
\* ======================================================================

\* C9: on an SSTable created from rows in strictly ascending primary-key
\* order, and on the same table reopened, find_by_full_pk returns for the
\* primary key of an input row a row equal to that row, and absent for a
\* primary key no input row has.
C9FindReturnsTheInputRow ==
    IsSome(ss_probe) =>
        /\ ss_found.ok
        /\ \A i \in 1..Len(ss_rows) :
              PkOf(ss_rows[i].cols) = ss_probe => ss_found.v = Some(ss_rows[i].buf)
        /\ (\A i \in 1..Len(ss_rows) : PkOf(ss_rows[i].cols) # ss_probe)
              => ss_found.v = None

\* C23: when find_by_full_pk probes or returns a malformed row of the data
\* file, its result is an error value: it does not panic, it does not return
\* absent and it does not return a row.
C23MalformedRowIsAnError ==
    (ss_state = "foreign" /\ IsSome(ss_probe)) => IsErr(ss_found)

\* C25: when SsTable::create has stopped before it wrote and flushed every
\* row, there is no index file of its name_base; and the offsets of an index
\* file that exists each point at a completely written framed row of the
\* data file.
C25NoIndexFileUnlessComplete ==
    /\ ss_state = "stopped" => "index" \notin ss_create.files
    /\ (ss_state \in {"stopped", "created"} /\ "index" \in ss_create.files) =>
           \A i \in 1..Len(index_slice(index_file)) :
               /\ "data" \in ss_create.files
               /\ data_at(data_file, index_slice(index_file)[i]).ok


\* ======================================================================
\* Properties of the encoders and decoders of primitives.rs
\* ======================================================================

\* C21: for every i32 and every i64 value, zero, the minimum and the maximum
\* included, decoding the signed varint written for the value gives the value
\* back, without an arithmetic overflow on the way.
C21SignedVarintRoundTrip ==
    rows_out.op = "signed_round_trip" =>
        /\ rows_out.results[1].ok
        /\ rows_out.results[1].v = rows_in[1]

\* Sum of the encoded lengths of the first n values.
RECURSIVE WrittenUpTo(_, _)
WrittenUpTo(items, n) ==
    IF n = 0 THEN 0 ELSE WrittenUpTo(items, n - 1) + Len(EncodeItem(items[n]))

\* C22: values written back to back with the unsigned varint, fixed-width,
\* bool and utf8 encoders are decoded in the same order from offset 0 to the
\* same values; every decode advances the offset by exactly the bytes written
\* for its value, and the last offset is the length of the buffer.
C22BackToBackRoundTrip ==
    rows_out.op = "write_then_read" =>
        /\ Len(rows_out.results) = Len(rows_in)
        /\ \A i \in 1..Len(rows_in) :
             /\ rows_out.results[i].ok
             /\ rows_out.results[i].v = rows_in[i].v
             /\ rows_out.results[i].offs = WrittenUpTo(rows_in, i)
        /\ WrittenUpTo(rows_in, Len(rows_in)) = Len(rows_out.buf)

\* Two values of different kinds, the largest u64 and a non-empty string
\* among them, were written and read back.
C22Witness ==
    /\ rows_out.op = "write_then_read"
    /\ Len(rows_in) = 2
    /\ rows_in[1] = [kind |-> "varint_u64", v |-> OnesBits(64)]
    /\ rows_in[2] = [kind |-> "utf8", v |-> <<195, 164>>]
    /\ Len(rows_out.results) = 2
    /\ rows_out.results[2].ok
    /\ rows_out.results[2].offs = 13

=============================================================================
